---- MODULE Spec2Model ----
(***************************************************************************)
(* ghloner: the worker pool dispatcher (WorkerPool.ProcessRepositories),   *)
(* the progress tracker it reports to, the paginated repository lister     *)
(* (RepositoryLister.ListRepositories) and the retry executor              *)
(* (Operations.RunWithRetry), each as a state machine of its goroutines.   *)
(***************************************************************************)
EXTENDS Integers, Sequences, FiniteSets, TLC

\* ---- bounds of the model ------------------------------------------------
MaxRepos == 3
MaxWorkers == 2
MaxPages == 3
MaxPerPage == 2
MaxRetry == 3
MaxThreads == 2
MaxCalls == 6
MaxNames == 3
MaxRuns == 2
MaxOps == 2
MaxAttempts == 2     \* largest retry count of the retried operation in the pool
MaxLiveRepos == 2    \* longest descriptor list of the pool with the retried operation

\* ---- program constants --------------------------------------------------
\* len(t.recentResults) > 5 evicts the oldest entry
RecentCap == 5

VARIABLES
    ctxDone,          \* ctx.Done() is closed / ctx.Err() != nil
    workers,          \* config.Workers: p.workers and l.config.Workers
    \* WorkerPool.ProcessRepositories
    nRepos,           \* len(repos); the descriptor at index i is named i
    idx,              \* loop variable i of the range loop
    mpc,              \* position of the calling goroutine
    semaphore,        \* number of tokens held in the semaphore channel
    wg,               \* counter of the sync.WaitGroup
    gpc,              \* position of the goroutine launched for index i
    gerr,             \* what processFunc returned for index i
    invoked,          \* number of calls of processFunc for index i
    reported,         \* number of CompleteRepository calls for index i
    sawDone,          \* the select took the <-ctx.Done() case
    admittedAtCancel, \* number of tasks launched when ctx was cancelled, -1 before
    inflightAtCancel, \* indices whose goroutine was live when ctx was cancelled
    poolRet,          \* return value of ProcessRepositories
    \* ProgressTracker
    totalRepos, completedRepos, failedRepos, workerStatuses, recentResults,
    \* RepositoryLister.ListRepositories / fetchRemainingPages
    remotePages,      \* number of listing pages the organization has
    pageSize,         \* number of repositories on each remote page
    hasLast,          \* the first response carries a rel="last" link
    respNext,         \* resp.NextPage of the first response
    respLast,         \* resp.LastPage of the first response
    lpc,              \* position of the goroutine calling ListRepositories
    totalPages,       \* totalPages
    page,             \* loop variable of the dispatch loop
    resultChan,       \* buffered contents of resultChan, oldest first
    chanClosed,       \* close(resultChan) has run
    lsem,             \* tokens held in the lister's semaphore channel
    lwg,              \* counter of the lister's WaitGroup
    wpc,              \* position of the goroutine fetching page p
    closer,           \* position of the goroutine that closes resultChan
    allRepos,         \* allRepos of fetchRemainingPages
    pageMap,          \* pageMap
    listRet,          \* what ListRepositories returned
    arrival,          \* page numbers in the order the collector received them
    dataFailed,       \* pages whose fetch failed with a non-cancellation error
    ctxSeen,          \* places that observed the cancellation before the return
    \* Operations.RunWithRetry
    retryCount,       \* o.retryCount
    operation,        \* the operation label
    attempt,          \* loop variable attempt
    rpc,              \* position inside RunWithRetry
    calls,            \* the result of every invocation of fn, in order
    sleeps,           \* number of time.Sleep(5 * time.Second) performed
    retryRet,         \* what RunWithRetry returned
    \* goroutines calling the ProgressTracker concurrently, and its t.mu
    muWriter,         \* the goroutine holding t.mu.Lock(), 0 if none
    muReaders,        \* number of holders of t.mu.RLock()
    tpc,              \* position of each calling goroutine
    tname,            \* the repository name the goroutine reports
    tsucc,            \* the success flag it will report
    tmpC,             \* the value of t.completedRepos it loaded for the increment
    nextName,         \* names handed out so far (each call gets a fresh name)
    rdpc,             \* position of the goroutine in PrintSummary
    snapC,            \* t.completedRepos as read by PrintSummary
    snapF,            \* t.failedRepos as read by PrintSummary
    lockC,            \* t.completedRepos when PrintSummary took the read lock
    lockF,            \* t.failedRepos when PrintSummary took the read lock
    completions,      \* every completion recorded, in the order recorded
    \* FileManager.CleanupOldRepositories and the output directory
    entryKind,        \* what the output directory holds under each name
    initKind,         \* what it held when the run started
    validRepos,       \* names of the repositories of the listing
    entries,          \* the names os.ReadDir returned
    cpos,             \* position of the loop over entries
    cpc,              \* position of CleanupOldRepositories
    cleanRet,         \* what CleanupOldRepositories returned
    synced,           \* repositories ProcessRepository has been run for
    syncFailed,       \* those for which it returned an error
    \* Manager.ProcessRepository for one repository, run after run
    RetryCount,       \* m.config.RetryCount
    remoteKind,       \* the remote repository: "normal", "empty" or "gone"
    dirState,         \* the local path: "absent", "repo" or "plain" (no repository)
    localHead,        \* the commit of the local HEAD, 0 if none
    originURL,        \* the URL of remote "origin" in the local config
    remoteRef,        \* the commit of refs/remotes/origin/<branch>, 0 if none
    cached,           \* m.repositories holds the opened repository
    repoMutex,        \* m.repoMutex is held
    run,              \* number of the current run of the program
    startDir,         \* the local directory when the current run started
    prevRet,          \* what ProcessRepository returned in the previous run
    mgpc,             \* position of ProcessRepository
    attemptCount,     \* the loop counter of cloneRepository / RunWithRetry
    cloneLog,         \* the outcome of each clone attempt of this run
    fetchLog,         \* the outcome of each fetch attempt of this run
    pullLog,          \* the outcome of each pull attempt of this run
    msleeps,          \* the 5 second delays of this run
    mret,             \* what ProcessRepository returned
    \* Processor.Run and FileManager.SaveRepositoryList
    ppc,              \* position of Run
    listed,           \* allRepos: the names ListRepositories returned, in order
    manifest,         \* repository_list.txt in the output directory
    manifestInit,     \* the file as it was when the run started
    wpos,             \* position of the loop over allRepos in SaveRepositoryList
    errs,             \* the err each phase returned to Run
    runRet,           \* what Run returned
    summaries,        \* number of PrintSummary calls
    \* Processor.runCommandWithRetry called by concurrent workers, and p.stats
    lgRetryCount,     \* p.config.RetryCount
    lgpc,             \* position of each worker inside runCommandWithRetry
    lgop,             \* the operation label of the call
    lgattempt,        \* loop variable attempt
    lgtmp,            \* the counter value loaded for the ++
    lgn,              \* number of calls the worker has made
    printMutex,       \* the worker holding p.stats.printMutex, 0 if none
    cloneRetrySuccess, fetchRetrySuccess, retriedFailure,
    finished,         \* every call that returned: worker, number, label, attempt, result
    \* Manager.openRepository called by concurrent workers, and m.repositories
    repositories,     \* m.repositories: repository name -> opened handle
    openMu,           \* the worker holding m.repoMutex, 0 if none
    openable,         \* the names whose path git.PlainOpen can open
    opc,              \* position of each worker inside openRepository
    oname,            \* the repoName of the call
    ocalls,           \* number of calls the worker has made
    plainOpens,       \* number of handles git.PlainOpen has returned
    opened,           \* every call that returned: worker, number, name, handle or error
    \* the per-repository function of the pool running a retried git operation
    liveRetry,        \* o.retryCount
    wattempt,         \* loop variable attempt of RunWithRetry in the task of index i
    delayedAtCancel   \* the tasks that were in the 5 second delay when ctx was cancelled

poolVars == <<nRepos, idx, mpc, semaphore, wg, gpc, gerr, invoked,
              reported, sawDone, admittedAtCancel, inflightAtCancel, poolRet>>
trackerVars == <<totalRepos, completedRepos, failedRepos, workerStatuses, recentResults>>
listVars == <<remotePages, pageSize, hasLast, respNext, respLast, lpc, totalPages, page,
              resultChan, chanClosed, lsem, lwg, wpc, closer, allRepos, pageMap,
              listRet, arrival, dataFailed, ctxSeen>>
retryVars == <<retryCount, operation, attempt, rpc, calls, sleeps, retryRet>>
lockVars == <<muWriter, muReaders, tpc, tname, tsucc, tmpC, nextName, rdpc,
              snapC, snapF, lockC, lockF, completions>>
cleanVars == <<entryKind, initKind, validRepos, entries, cpos, cpc, cleanRet, synced, syncFailed>>
mgrVars == <<RetryCount, remoteKind, dirState, localHead, originURL, remoteRef, cached, repoMutex, run,
             startDir, prevRet, mgpc, attemptCount, cloneLog, fetchLog, pullLog, msleeps, mret>>
procVars == <<ppc, listed, manifest, manifestInit, wpos, errs, runRet, summaries>>
legVars == <<lgRetryCount, lgpc, lgop, lgattempt, lgtmp, lgn, printMutex,
             cloneRetrySuccess, fetchRetrySuccess, retriedFailure, finished>>
openVars == <<repositories, openMu, openable, opc, oname, ocalls, plainOpens, opened>>
liveVars == <<liveRetry, wattempt, delayedAtCancel>>
extVars == <<lockVars, cleanVars, mgrVars, procVars, legVars, openVars, liveVars>>
vars == <<ctxDone, workers, poolVars, trackerVars, listVars, retryVars, extVars>>

Threads == 1 .. MaxThreads

\* names of directory entries in the order os.ReadDir sorts them; GitDir is ".git"
GitDir == 0
Names == 0 .. MaxNames

Indices == 0 .. (MaxRepos - 1)

\* ---- ProgressTracker ----------------------------------------------------

AppendRecentKeepOldest(results, r) ==
    LET appended == Append(results, r)
    IN  IF Len(appended) > RecentCap THEN SubSeq(appended, 1, RecentCap) ELSE appended

\* t.recentResults = append(...); if len > 5 { t.recentResults = t.recentResults[1:] }
AppendRecent(results, r) ==
    LET appended == Append(results, r)
    IN  IF Len(appended) > RecentCap THEN Tail(appended) ELSE appended

NewProgressTracker(total) ==
    /\ totalRepos = total
    /\ completedRepos = 0
    /\ failedRepos = 0
    /\ workerStatuses = << >>
    /\ recentResults = << >>

\* t.workerStatuses[workerID] = &WorkerStatus{...} under t.mu
StartWorker(workerID, repoName) ==
    /\ workerStatuses' = [id \in (DOMAIN workerStatuses) \cup {workerID} |->
                             IF id = workerID THEN repoName ELSE workerStatuses[id]]
    /\ UNCHANGED <<totalRepos, completedRepos, failedRepos, recentResults>>

FailedAfterTwice(f, success) == IF ~success THEN f + 2 ELSE f

\* if !success { t.failedRepos++ }
FailedAfter(f, success) == IF ~success THEN f + 1 ELSE f

StatusesAfterKeeps(ws, repoName) == {ws}

\* for id, status := range t.workerStatuses { if status.Repository == repoName {
\* delete(t.workerStatuses, id); break } }: the maps that may result (map
\* iteration order is arbitrary)
StatusesAfter(ws, repoName) ==
    LET match == {id \in DOMAIN ws : ws[id] = repoName}
    IN  IF match = {}
        THEN {ws}
        ELSE {[j \in (DOMAIN ws) \ {id} |-> ws[j]] : id \in match}

\* the whole body runs under t.mu
CompleteRepository(repoName, success, err) ==
    /\ completedRepos' = completedRepos + 1
    /\ failedRepos' = FailedAfter(failedRepos, success)
    /\ workerStatuses' \in StatusesAfter(workerStatuses, repoName)
    /\ recentResults' = AppendRecent(recentResults,
                            [Name |-> repoName, Success |-> success, Error |-> err])
    /\ UNCHANGED totalRepos

\* ---- WorkerPool.ProcessRepositories -------------------------------------

SemaphoreCapDoubled(k) == 2 * k

\* semaphore := make(chan struct{}, p.workers)
SemaphoreCap(k) == k

\* go func(...)(repo, i, i%p.workers)
WorkerID(i, k) == i % k

NextIndexSkips(i) == i + 2

\* for i, repo := range repos
NextIndex(i) == i + 1

RangeExhaustedAtOnce(i, n) == TRUE

\* for i, repo := range repos: no element is left
RangeExhausted(i, n) == i >= n

SuccessAlways(err) == TRUE

\* p.progressTracker.CompleteRepository(repoName, err == nil, err)
Success(err) == err = "nil"

WaitReturnsEarly(counter) == counter <= 1

\* wg.Wait() returns when the counter is zero
WaitReturns(counter) == counter = 0

PoolResultNil(done) == "nil"

PoolResultInterrupted(done) == "interrupted"

\* if ctx.Err() != nil { return fmt.Errorf("program interrupted ...") }; return nil
PoolResult(done) == IF done THEN "interrupted" ELSE "nil"

\* what processFunc may return: nil, an error of its own, or ctx.Err() once
\* the context is cancelled
FuncResults(done) == {"nil", "error"} \cup (IF done THEN {"ctx"} ELSE {})

\* ---- values of the parts a specification does not run -------------------

NoErr == [kind |-> "none", wrap |-> "none", page |-> 0]
NotReturned == [repos |-> << >>, isNil |-> TRUE, err |-> NoErr]
Pages == 1 .. MaxPages

DispatcherIdle ==
    /\ nRepos = 0
    /\ idx = 0
    /\ mpc = "idle"
    /\ semaphore = 0
    /\ wg = 0
    /\ gpc = [i \in Indices |-> "none"]
    /\ gerr = [i \in Indices |-> "none"]
    /\ invoked = [i \in Indices |-> 0]
    /\ reported = [i \in Indices |-> 0]
    /\ sawDone = FALSE
    /\ admittedAtCancel = -1
    /\ inflightAtCancel = {}
    /\ poolRet = "none"

PoolIdle ==
    /\ DispatcherIdle
    /\ NewProgressTracker(0)

ListIdle ==
    /\ remotePages = 1
    /\ pageSize = [p \in Pages |-> 0]
    /\ hasLast = FALSE
    /\ respNext = 0
    /\ respLast = 0
    /\ lpc = "idle"
    /\ totalPages = 0
    /\ page = 0
    /\ resultChan = << >>
    /\ chanClosed = FALSE
    /\ lsem = 0
    /\ lwg = 0
    /\ wpc = [p \in Pages |-> "none"]
    /\ closer = "none"
    /\ allRepos = << >>
    /\ pageMap = << >>
    /\ listRet = NotReturned
    /\ arrival = << >>
    /\ dataFailed = {}
    /\ ctxSeen = {}

RetryIdle ==
    /\ retryCount = 0
    /\ operation = "none"
    /\ attempt = 0
    /\ rpc = "idle"
    /\ calls = << >>
    /\ sleeps = 0
    /\ retryRet = [isNil |-> TRUE, op |-> "none", msg |-> << >>, cause |-> 0]

LockIdle ==
    /\ muWriter = 0
    /\ muReaders = 0
    /\ tpc = [t \in Threads |-> "idle"]
    /\ tname = [t \in Threads |-> 0]
    /\ tsucc = [t \in Threads |-> TRUE]
    /\ tmpC = [t \in Threads |-> 0]
    /\ nextName = 0
    /\ rdpc = "idle"
    /\ snapC = 0
    /\ snapF = 0
    /\ lockC = 0
    /\ lockF = 0
    /\ completions = << >>

CleanIdle ==
    /\ entryKind = [n \in Names |-> "none"]
    /\ initKind = [n \in Names |-> "none"]
    /\ validRepos = {}
    /\ entries = << >>
    /\ cpos = 0
    /\ cpc = "idle"
    /\ cleanRet = "none"
    /\ synced = {}
    /\ syncFailed = {}

NilErr == [isNil |-> TRUE, msg |-> << >>]
NoDir == [state |-> "absent", head |-> 0, url |-> "none", ref |-> 0]

ManagerIdle ==
    /\ RetryCount = 0
    /\ remoteKind = "normal"
    /\ dirState = "absent"
    /\ localHead = 0
    /\ originURL = "none"
    /\ remoteRef = 0
    /\ cached = FALSE
    /\ repoMutex = FALSE
    /\ run = 0
    /\ startDir = NoDir
    /\ prevRet = NilErr
    /\ mgpc = "idle"
    /\ attemptCount = 0
    /\ cloneLog = << >>
    /\ fetchLog = << >>
    /\ pullLog = << >>
    /\ msleeps = 0
    /\ mret = NilErr

NoErrs == [list |-> "none", save |-> "none", cleanup |-> "none", sync |-> "none"]
NoFile == [exists |-> FALSE, lines |-> << >>]

ProcIdle ==
    /\ ppc = "idle"
    /\ listed = << >>
    /\ manifest = NoFile
    /\ manifestInit = NoFile
    /\ wpos = 0
    /\ errs = NoErrs
    /\ runRet = "none"
    /\ summaries = 0

LegacyIdle ==
    /\ lgRetryCount = 0
    /\ lgpc = [t \in Threads |-> "idle"]
    /\ lgop = [t \in Threads |-> "none"]
    /\ lgattempt = [t \in Threads |-> 0]
    /\ lgtmp = [t \in Threads |-> 0]
    /\ lgn = [t \in Threads |-> 0]
    /\ printMutex = 0
    /\ cloneRetrySuccess = 0
    /\ fetchRetrySuccess = 0
    /\ retriedFailure = 0
    /\ finished = {}

OpenIdle ==
    /\ repositories = << >>
    /\ openMu = 0
    /\ openable = {}
    /\ opc = [t \in Threads |-> "idle"]
    /\ oname = [t \in Threads |-> 0]
    /\ ocalls = [t \in Threads |-> 0]
    /\ plainOpens = 0
    /\ opened = {}

LiveIdle ==
    /\ liveRetry = 0
    /\ wattempt = [i \in Indices |-> 0]
    /\ delayedAtCancel = {}

ExtIdle ==
    /\ LockIdle
    /\ CleanIdle
    /\ ManagerIdle
    /\ ProcIdle
    /\ LegacyIdle
    /\ OpenIdle
    /\ LiveIdle

PoolInit ==
    /\ ctxDone = FALSE
    /\ workers \in 0 .. MaxWorkers
    /\ nRepos \in 0 .. MaxRepos
    /\ idx = 0
    /\ mpc = "loop"
    /\ semaphore = 0
    /\ wg = 0
    /\ gpc = [i \in Indices |-> "none"]
    /\ gerr = [i \in Indices |-> "none"]
    /\ invoked = [i \in Indices |-> 0]
    /\ reported = [i \in Indices |-> 0]
    /\ sawDone = FALSE
    /\ admittedAtCancel = -1
    /\ inflightAtCancel = {}
    /\ poolRet = "none"
    /\ NewProgressTracker(nRepos)
    /\ ListIdle
    /\ RetryIdle
    /\ ExtIdle

\* the cancellation signal, at any moment before ProcessRepositories returns
Cancel ==
    /\ ~ctxDone
    /\ mpc # "done"
    /\ ctxDone' = TRUE
    /\ admittedAtCancel' = idx
    /\ inflightAtCancel' = {i \in Indices : gpc[i] \notin {"none", "exit"}}
    /\ UNCHANGED <<workers, nRepos, idx, mpc, semaphore, wg, gpc, gerr, invoked,
                   reported, sawDone, poolRet, trackerVars>>
    /\ UNCHANGED <<listVars, retryVars, extVars>>

\* select { case <-ctx.Done(): goto cleanup }
SelectDone ==
    /\ mpc = "loop"
    /\ idx < nRepos
    /\ ctxDone
    /\ sawDone' = TRUE
    /\ mpc' = "wait"
    /\ UNCHANGED <<ctxDone, workers, nRepos, idx, semaphore, wg, gpc, gerr, invoked,
                   reported, admittedAtCancel, inflightAtCancel, poolRet, trackerVars>>
    /\ UNCHANGED <<listVars, retryVars, extVars>>

\* select { default: wg.Add(1) ... }
SelectDefault ==
    /\ mpc = "loop"
    /\ idx < nRepos
    /\ ~ctxDone
    /\ wg' = wg + 1
    /\ mpc' = "acquire"
    /\ UNCHANGED <<ctxDone, workers, nRepos, idx, semaphore, gpc, gerr, invoked,
                   reported, sawDone, admittedAtCancel, inflightAtCancel, poolRet, trackerVars>>
    /\ UNCHANGED <<listVars, retryVars, extVars>>

\* semaphore <- struct{}{} (blocks while the channel is full); go func(...)
Admit ==
    /\ mpc = "acquire"
    /\ semaphore < SemaphoreCap(workers)
    /\ semaphore' = semaphore + 1
    /\ gpc' = [gpc EXCEPT ![idx] = "spawned"]
    /\ idx' = NextIndex(idx)
    /\ mpc' = "loop"
    /\ UNCHANGED <<ctxDone, workers, nRepos, wg, gerr, invoked, reported, sawDone,
                   admittedAtCancel, inflightAtCancel, poolRet, trackerVars>>
    /\ UNCHANGED <<listVars, retryVars, extVars>>

\* the range loop is exhausted
LoopEnd ==
    /\ mpc = "loop"
    /\ RangeExhausted(idx, nRepos)
    /\ mpc' = "wait"
    /\ UNCHANGED <<ctxDone, workers, nRepos, idx, semaphore, wg, gpc, gerr, invoked,
                   reported, sawDone, admittedAtCancel, inflightAtCancel, poolRet, trackerVars>>
    /\ UNCHANGED <<listVars, retryVars, extVars>>

\* cleanup: wg.Wait(); close(semaphore)
Wait ==
    /\ mpc = "wait"
    /\ WaitReturns(wg)
    /\ mpc' = "check"
    /\ UNCHANGED <<ctxDone, workers, nRepos, idx, semaphore, wg, gpc, gerr, invoked,
                   reported, sawDone, admittedAtCancel, inflightAtCancel, poolRet, trackerVars>>
    /\ UNCHANGED <<listVars, retryVars, extVars>>

\* if ctx.Err() != nil { return interrupted }; return nil
Return ==
    /\ mpc = "check"
    /\ poolRet' = PoolResult(ctxDone)
    /\ mpc' = "done"
    /\ UNCHANGED <<ctxDone, workers, nRepos, idx, semaphore, wg, gpc, gerr, invoked,
                   reported, sawDone, admittedAtCancel, inflightAtCancel, trackerVars>>
    /\ UNCHANGED <<listVars, retryVars, extVars>>

\* p.progressTracker.StartWorker(workerID, repoName, "processing"); Run sets
\* the tracker (SetProgressTracker) before it calls ProcessRepositories
WorkerStart(i) ==
    /\ gpc[i] = "spawned"
    /\ StartWorker(WorkerID(i, workers), i)
    /\ gpc' = [gpc EXCEPT ![i] = "started"]
    /\ UNCHANGED <<ctxDone, workers, nRepos, idx, mpc, semaphore, wg, gerr, invoked,
                   reported, sawDone, admittedAtCancel, inflightAtCancel, poolRet>>
    /\ UNCHANGED <<listVars, retryVars, extVars>>

\* err := processFunc(repo): the call begins
WorkerCall(i) ==
    /\ gpc[i] = "started"
    /\ invoked' = [invoked EXCEPT ![i] = @ + 1]
    /\ gpc' = [gpc EXCEPT ![i] = "running"]
    /\ UNCHANGED <<ctxDone, workers, nRepos, idx, mpc, semaphore, wg, gerr,
                   reported, sawDone, admittedAtCancel, inflightAtCancel, poolRet, trackerVars>>
    /\ UNCHANGED <<listVars, retryVars, extVars>>

\* err := processFunc(repo): the call returns
WorkerReturn(i) ==
    /\ gpc[i] = "running"
    /\ \E r \in FuncResults(ctxDone) : gerr' = [gerr EXCEPT ![i] = r]
    /\ gpc' = [gpc EXCEPT ![i] = "returned"]
    /\ UNCHANGED <<ctxDone, workers, nRepos, idx, mpc, semaphore, wg, invoked,
                   reported, sawDone, admittedAtCancel, inflightAtCancel, poolRet, trackerVars>>
    /\ UNCHANGED <<listVars, retryVars, extVars>>

\* p.progressTracker.CompleteRepository(repoName, err == nil, err)
WorkerComplete(i) ==
    /\ gpc[i] = "returned"
    /\ CompleteRepository(i, Success(gerr[i]), gerr[i])
    /\ reported' = [reported EXCEPT ![i] = @ + 1]
    /\ gpc' = [gpc EXCEPT ![i] = "completed"]
    /\ UNCHANGED <<ctxDone, workers, nRepos, idx, mpc, semaphore, wg, gerr, invoked,
                   sawDone, admittedAtCancel, inflightAtCancel, poolRet>>
    /\ UNCHANGED <<listVars, retryVars, extVars>>

\* defer func() { <-semaphore }()
WorkerRelease(i) ==
    /\ gpc[i] = "completed"
    /\ semaphore' = semaphore - 1
    /\ gpc' = [gpc EXCEPT ![i] = "released"]
    /\ UNCHANGED <<ctxDone, workers, nRepos, idx, mpc, wg, gerr, invoked,
                   reported, sawDone, admittedAtCancel, inflightAtCancel, poolRet, trackerVars>>
    /\ UNCHANGED <<listVars, retryVars, extVars>>

\* defer wg.Done()
WorkerDone(i) ==
    /\ gpc[i] = "released"
    /\ wg' = wg - 1
    /\ gpc' = [gpc EXCEPT ![i] = "exit"]
    /\ UNCHANGED <<ctxDone, workers, nRepos, idx, mpc, semaphore, gerr, invoked,
                   reported, sawDone, admittedAtCancel, inflightAtCancel, poolRet, trackerVars>>
    /\ UNCHANGED <<listVars, retryVars, extVars>>

PoolNext ==
    \/ Cancel
    \/ SelectDone
    \/ SelectDefault
    \/ Admit
    \/ LoopEnd
    \/ Wait
    \/ Return
    \/ \E i \in Indices : WorkerStart(i)
    \/ \E i \in Indices : WorkerCall(i)
    \/ \E i \in Indices : WorkerReturn(i)
    \/ \E i \in Indices : WorkerComplete(i)
    \/ \E i \in Indices : WorkerRelease(i)
    \/ \E i \in Indices : WorkerDone(i)

Spec == PoolInit /\ [][PoolNext]_vars

\* ---- RepositoryLister.ListRepositories ----------------------------------

CtxErr == [kind |-> "ctx", wrap |-> "none", page |-> 0]
DataErr == [kind |-> "data", wrap |-> "none", page |-> 0]

\* the repositories the remote lists on page p
PageRepos(p) == [j \in 1 .. pageSize[p] |-> <<p, j>>]

\* what client.Repositories.ListByOrg(ctx, ...) may return for page p: the
\* page, an API or network error, or ctx.Err() once the context is cancelled
FetchResults(p, done) ==
    {[page |-> p, repos |-> PageRepos(p), err |-> NoErr],
     [page |-> p, repos |-> << >>, err |-> DataErr]}
    \cup (IF done THEN {[page |-> p, repos |-> << >>, err |-> CtxErr]} ELSE {})

\* fmt.Errorf("error fetching first page of repositories: %w", err)
WrapFirst(e) == [kind |-> e.kind, wrap |-> "first", page |-> 0]

ResultErrorWrapAll(r) == [kind |-> r.err.kind, wrap |-> "page", page |-> r.page]

\* if errors.Is(result.err, context.Canceled) || ... { return nil, result.err }
\* return nil, fmt.Errorf("error fetching page %d: %w", result.page, result.err)
ResultError(r) ==
    IF r.err.kind = "ctx" THEN r.err
    ELSE [kind |-> r.err.kind, wrap |-> "page", page |-> r.page]

FailedPartial(partial, e) == [repos |-> partial, isNil |-> FALSE, err |-> e]

\* return nil, err: a failed listing returns no repositories
Failed(partial, e) == [repos |-> << >>, isNil |-> TRUE, err |-> e]

\* totalPages := resp.LastPage; if totalPages == 0 { totalPages = resp.NextPage }
TotalPages(next, last) == IF last = 0 THEN next ELSE last

ResultChanCapWithoutFirst(total) == total - 1

\* resultChan := make(chan pageResult, totalPages)
ResultChanCap(total) == total

RECURSIVE AppendPagesFromFirst(_, _, _, _)
AppendPagesFromFirst(acc, pm, p, total) ==
    IF p > total + 1 THEN acc
    ELSE AppendPagesFromFirst(IF (p - 1) \in DOMAIN pm THEN acc \o pm[p - 1] ELSE acc,
                              pm, p + 1, total)

RECURSIVE AppendPagesDescending(_, _, _, _)
AppendPagesDescending(acc, pm, p, total) ==
    IF p > total THEN acc
    ELSE LET q == total + 2 - p
         IN  AppendPagesDescending(IF q \in DOMAIN pm THEN acc \o pm[q] ELSE acc,
                                   pm, p + 1, total)

\* for page := 2; page <= totalPages; page++ {
\*     if repos, ok := pageMap[page]; ok { allRepos = append(allRepos, repos...) } }
RECURSIVE AppendPages(_, _, _, _)
AppendPages(acc, pm, p, total) ==
    IF p > total THEN acc
    ELSE AppendPages(IF p \in DOMAIN pm THEN acc \o pm[p] ELSE acc, pm, p + 1, total)

ListInit ==
    /\ ctxDone = FALSE
    /\ workers \in 0 .. MaxWorkers
    /\ remotePages \in Pages
    /\ pageSize \in [Pages -> 0 .. MaxPerPage]
    /\ \A p \in Pages : (p <= remotePages) <=> (pageSize[p] >= 1)
    /\ hasLast \in BOOLEAN
    /\ (remotePages = 1 => hasLast = FALSE)
    /\ respNext = 0
    /\ respLast = 0
    /\ lpc = "first"
    /\ totalPages = 0
    /\ page = 0
    /\ resultChan = << >>
    /\ chanClosed = FALSE
    /\ lsem = 0
    /\ lwg = 0
    /\ wpc = [p \in Pages |-> "none"]
    /\ closer = "none"
    /\ allRepos = << >>
    /\ pageMap = << >>
    /\ listRet = NotReturned
    /\ arrival = << >>
    /\ dataFailed = {}
    /\ ctxSeen = {}
    /\ PoolIdle
    /\ RetryIdle
    /\ ExtIdle

\* the cancellation signal, at any moment before ListRepositories returns
ListCancel ==
    /\ ~ctxDone
    /\ lpc # "done"
    /\ ctxDone' = TRUE
    /\ UNCHANGED <<workers, listVars, poolVars, trackerVars, retryVars, extVars>>

\* fetchFirstPage fails: return nil, err
FirstPageFails ==
    /\ lpc = "first"
    /\ \E r \in FetchResults(1, ctxDone) :
         /\ r.err.kind # "none"
         /\ listRet' = Failed(<< >>, WrapFirst(r.err))
         /\ dataFailed' = IF r.err.kind = "data" THEN dataFailed \cup {1} ELSE dataFailed
         /\ ctxSeen' = IF r.err.kind = "ctx" THEN ctxSeen \cup {"first"} ELSE ctxSeen
    /\ lpc' = "done"
    /\ UNCHANGED <<ctxDone, workers, remotePages, pageSize, hasLast, respNext, respLast,
                   totalPages, page, resultChan, chanClosed, lsem, lwg, wpc, closer,
                   allRepos, pageMap, arrival>>
    /\ UNCHANGED <<poolVars, trackerVars, retryVars, extVars>>

\* fetchFirstPage succeeds and resp.NextPage == 0: return firstPageRepos, nil
FirstPageOnly ==
    /\ lpc = "first"
    /\ remotePages = 1
    /\ respNext' = 0
    /\ respLast' = 0
    /\ listRet' = [repos |-> PageRepos(1), isNil |-> FALSE, err |-> NoErr]
    /\ lpc' = "done"
    /\ UNCHANGED <<ctxDone, workers, remotePages, pageSize, hasLast,
                   totalPages, page, resultChan, chanClosed, lsem, lwg, wpc, closer,
                   allRepos, pageMap, arrival, dataFailed, ctxSeen>>
    /\ UNCHANGED <<poolVars, trackerVars, retryVars, extVars>>

\* fetchFirstPage succeeds with a next page: fetchRemainingPages begins, sizes
\* resultChan and sends page 1 into it
FirstPageMore ==
    /\ lpc = "first"
    /\ remotePages > 1
    /\ respNext' = 2
    /\ respLast' = IF hasLast THEN remotePages ELSE 0
    /\ totalPages' = TotalPages(respNext', respLast')
    /\ resultChan' = <<[page |-> 1, repos |-> PageRepos(1), err |-> NoErr]>>
    /\ page' = 2
    /\ lpc' = "dispatch"
    /\ UNCHANGED <<ctxDone, workers, remotePages, pageSize, hasLast,
                   chanClosed, lsem, lwg, wpc, closer,
                   allRepos, pageMap, listRet, arrival, dataFailed, ctxSeen>>
    /\ UNCHANGED <<poolVars, trackerVars, retryVars, extVars>>

\* dispatch loop: select { case <-ctx.Done(): return nil, ctx.Err() }
DispatchDone ==
    /\ lpc = "dispatch"
    /\ page <= totalPages
    /\ ctxDone
    /\ listRet' = Failed(PageRepos(1), CtxErr)
    /\ ctxSeen' = ctxSeen \cup {"loop"}
    /\ lpc' = "done"
    /\ UNCHANGED <<ctxDone, workers, remotePages, pageSize, hasLast, respNext, respLast,
                   totalPages, page, resultChan, chanClosed, lsem, lwg, wpc, closer,
                   allRepos, pageMap, arrival, dataFailed>>
    /\ UNCHANGED <<poolVars, trackerVars, retryVars, extVars>>

\* dispatch loop: select { default: }; wg.Add(1)
DispatchDefault ==
    /\ lpc = "dispatch"
    /\ page <= totalPages
    /\ ~ctxDone
    /\ lwg' = lwg + 1
    /\ lpc' = "acquire"
    /\ UNCHANGED <<ctxDone, workers, remotePages, pageSize, hasLast, respNext, respLast,
                   totalPages, page, resultChan, chanClosed, lsem, wpc, closer,
                   allRepos, pageMap, listRet, arrival, dataFailed, ctxSeen>>
    /\ UNCHANGED <<poolVars, trackerVars, retryVars, extVars>>

\* semaphore <- struct{}{}; go func(pageNum int) {...}(page); page++
DispatchLaunch ==
    /\ lpc = "acquire"
    /\ lsem < workers
    /\ lsem' = lsem + 1
    /\ wpc' = [wpc EXCEPT ![page] = "spawned"]
    /\ page' = page + 1
    /\ lpc' = "dispatch"
    /\ UNCHANGED <<ctxDone, workers, remotePages, pageSize, hasLast, respNext, respLast,
                   totalPages, resultChan, chanClosed, lwg, closer,
                   allRepos, pageMap, listRet, arrival, dataFailed, ctxSeen>>
    /\ UNCHANGED <<poolVars, trackerVars, retryVars, extVars>>

\* the dispatch loop ends: go func() { wg.Wait(); close(resultChan) }();
\* allRepos = append(allRepos, firstPageRepos...); pageMap := make(map...)
DispatchEnd ==
    /\ lpc = "dispatch"
    /\ page > totalPages
    /\ closer' = "waiting"
    /\ allRepos' = PageRepos(1)
    /\ pageMap' = << >>
    /\ lpc' = "collect"
    /\ UNCHANGED <<ctxDone, workers, remotePages, pageSize, hasLast, respNext, respLast,
                   totalPages, page, resultChan, chanClosed, lsem, lwg, wpc,
                   listRet, arrival, dataFailed, ctxSeen>>
    /\ UNCHANGED <<poolVars, trackerVars, retryVars, extVars>>

\* wg.Wait(); close(resultChan)
CloseResults ==
    /\ closer = "waiting"
    /\ lwg = 0
    /\ chanClosed' = TRUE
    /\ closer' = "exit"
    /\ UNCHANGED <<ctxDone, workers, remotePages, pageSize, hasLast, respNext, respLast,
                   lpc, totalPages, page, resultChan, lsem, lwg, wpc,
                   allRepos, pageMap, listRet, arrival, dataFailed, ctxSeen>>
    /\ UNCHANGED <<poolVars, trackerVars, retryVars, extVars>>

\* resultChan <- r, by the goroutine of page p, which then returns into its
\* deferred calls; the send blocks while the buffer is full
Send(p, r) ==
    /\ Len(resultChan) < ResultChanCap(totalPages)
    /\ ~chanClosed
    /\ resultChan' = Append(resultChan, r)
    /\ wpc' = [wpc EXCEPT ![p] = "sent"]

\* page goroutine: select { case <-ctx.Done(): resultChan <- {page, ctx.Err()} }
PageSeesDone(p) ==
    /\ wpc[p] = "spawned"
    /\ ctxDone
    /\ Send(p, [page |-> p, repos |-> << >>, err |-> CtxErr])
    /\ ctxSeen' = IF lpc # "done" THEN ctxSeen \cup {"worker"} ELSE ctxSeen
    /\ UNCHANGED <<ctxDone, workers, remotePages, pageSize, hasLast, respNext, respLast,
                   lpc, totalPages, page, chanClosed, lsem, lwg, closer,
                   allRepos, pageMap, listRet, arrival, dataFailed>>
    /\ UNCHANGED <<poolVars, trackerVars, retryVars, extVars>>

\* page goroutine: select { default: }; the ListByOrg call for the page begins
PageBeginsFetch(p) ==
    /\ wpc[p] = "spawned"
    /\ ~ctxDone
    /\ wpc' = [wpc EXCEPT ![p] = "fetching"]
    /\ UNCHANGED <<ctxDone, workers, remotePages, pageSize, hasLast, respNext, respLast,
                   lpc, totalPages, page, resultChan, chanClosed, lsem, lwg, closer,
                   allRepos, pageMap, listRet, arrival, dataFailed, ctxSeen>>
    /\ UNCHANGED <<poolVars, trackerVars, retryVars, extVars>>

\* page goroutine: ListByOrg returns; resultChan <- {page, repos} or {page, err}
PageFetched(p) ==
    /\ wpc[p] = "fetching"
    /\ \E r \in FetchResults(p, ctxDone) :
         /\ Send(p, r)
         /\ dataFailed' = IF r.err.kind = "data" /\ lpc # "done"
                          THEN dataFailed \cup {p} ELSE dataFailed
         /\ ctxSeen' = IF r.err.kind = "ctx" /\ lpc # "done"
                       THEN ctxSeen \cup {"worker"} ELSE ctxSeen
    /\ UNCHANGED <<ctxDone, workers, remotePages, pageSize, hasLast, respNext, respLast,
                   lpc, totalPages, page, chanClosed, lsem, lwg, closer,
                   allRepos, pageMap, listRet, arrival>>
    /\ UNCHANGED <<poolVars, trackerVars, retryVars, extVars>>

\* page goroutine: defer func() { <-semaphore }()
PageRelease(p) ==
    /\ wpc[p] = "sent"
    /\ lsem' = lsem - 1
    /\ wpc' = [wpc EXCEPT ![p] = "released"]
    /\ UNCHANGED <<ctxDone, workers, remotePages, pageSize, hasLast, respNext, respLast,
                   lpc, totalPages, page, resultChan, chanClosed, lwg, closer,
                   allRepos, pageMap, listRet, arrival, dataFailed, ctxSeen>>
    /\ UNCHANGED <<poolVars, trackerVars, retryVars, extVars>>

\* page goroutine: defer wg.Done()
PageExit(p) ==
    /\ wpc[p] = "released"
    /\ lwg' = lwg - 1
    /\ wpc' = [wpc EXCEPT ![p] = "exit"]
    /\ UNCHANGED <<ctxDone, workers, remotePages, pageSize, hasLast, respNext, respLast,
                   lpc, totalPages, page, resultChan, chanClosed, lsem, closer,
                   allRepos, pageMap, listRet, arrival, dataFailed, ctxSeen>>
    /\ UNCHANGED <<poolVars, trackerVars, retryVars, extVars>>

\* for result := range resultChan { ...; pageMap[result.page] = result.repos }
CollectPage ==
    /\ lpc = "collect"
    /\ resultChan # << >>
    /\ Head(resultChan).err.kind = "none"
    /\ LET r == Head(resultChan)
       IN  /\ pageMap' = [q \in (DOMAIN pageMap) \cup {r.page} |->
                             IF q = r.page THEN r.repos ELSE pageMap[q]]
           /\ arrival' = Append(arrival, r.page)
    /\ resultChan' = Tail(resultChan)
    /\ UNCHANGED <<ctxDone, workers, remotePages, pageSize, hasLast, respNext, respLast,
                   lpc, totalPages, page, chanClosed, lsem, lwg, wpc, closer,
                   allRepos, listRet, dataFailed, ctxSeen>>
    /\ UNCHANGED <<poolVars, trackerVars, retryVars, extVars>>

\* for result := range resultChan { if result.err != nil { return nil, ... } }
CollectError ==
    /\ lpc = "collect"
    /\ resultChan # << >>
    /\ Head(resultChan).err.kind # "none"
    /\ listRet' = Failed(AppendPages(allRepos, pageMap, 2, totalPages),
                       ResultError(Head(resultChan)))
    /\ arrival' = Append(arrival, Head(resultChan).page)
    /\ resultChan' = Tail(resultChan)
    /\ lpc' = "done"
    /\ UNCHANGED <<ctxDone, workers, remotePages, pageSize, hasLast, respNext, respLast,
                   totalPages, page, chanClosed, lsem, lwg, wpc, closer,
                   allRepos, pageMap, dataFailed, ctxSeen>>
    /\ UNCHANGED <<poolVars, trackerVars, retryVars, extVars>>

\* the range ends on the closed, drained channel; the pages are appended in
\* ascending page number and ListRepositories returns allRepos, nil
CollectEnd ==
    /\ lpc = "collect"
    /\ resultChan = << >>
    /\ chanClosed
    /\ allRepos' = AppendPages(allRepos, pageMap, 2, totalPages)
    /\ listRet' = [repos |-> allRepos', isNil |-> FALSE, err |-> NoErr]
    /\ lpc' = "done"
    /\ UNCHANGED <<ctxDone, workers, remotePages, pageSize, hasLast, respNext, respLast,
                   totalPages, page, resultChan, chanClosed, lsem, lwg, wpc, closer,
                   pageMap, arrival, dataFailed, ctxSeen>>
    /\ UNCHANGED <<poolVars, trackerVars, retryVars, extVars>>

ListNext ==
    \/ ListCancel
    \/ FirstPageFails
    \/ FirstPageOnly
    \/ FirstPageMore
    \/ DispatchDone
    \/ DispatchDefault
    \/ DispatchLaunch
    \/ DispatchEnd
    \/ CloseResults
    \/ \E p \in Pages : PageSeesDone(p)
    \/ \E p \in Pages : PageBeginsFetch(p)
    \/ \E p \in Pages : PageFetched(p)
    \/ \E p \in Pages : PageRelease(p)
    \/ \E p \in Pages : PageExit(p)
    \/ CollectPage
    \/ CollectError
    \/ CollectEnd

SpecList == ListInit /\ [][ListNext]_vars

\* ---- Operations.RunWithRetry --------------------------------------------

\* the operation labels RunWithRetry is called with
Operations == {"cloning", "fetching updates for", "pulling updates for"}

\* the messages of the errors a git operation may fail with
FnMessages == {"network error", "remote repository is empty",
               "repository not found", "non-fast-forward update"}

\* what fn() may return: nil or an error with one of the messages
FnResults == {[isNil |-> TRUE, msg |-> << >>]}
             \cup {[isNil |-> FALSE, msg |-> <<m>>] : m \in FnMessages}

\* the phrases that occur inside a longer message
PhraseIn(phrase, text) ==
    \/ phrase = text
    \/ <<phrase, text>> \in {<<"repository is empty", "remote repository is empty">>,
                             <<"not found", "repository not found">>,
                             <<"does not exist", "repository does not exist">>,
                             <<"fetching", "fetching updates for">>}

\* strings.Contains(err.Error(), phrase), the message being a chain of
\* wrapped parts
Contains(msg, phrase) == \E k \in 1 .. Len(msg) : PhraseIn(phrase, msg[k])

IsEmptyRemoteOrDiverged(msg) ==
    \/ Contains(msg, "remote repository is empty")
    \/ Contains(msg, "non-fast-forward update")

IsEmptyRemoteNever(msg) == FALSE

\* strings.Contains(err.Error(), "remote repository is empty")
IsEmptyRemote(msg) == Contains(msg, "remote repository is empty")

LastAttemptOneEarly(a, count) == a + 1 >= count

\* if attempt == o.retryCount
LastAttempt(a, count) == a = count

\* fmt.Errorf("error %s %s: %w", operation, repoName, err), of the error
\* returned by invocation number n
Wrap(op, e, n) == [isNil |-> FALSE, op |-> op, msg |-> <<op>> \o e.msg, cause |-> n]

RetryNil == [isNil |-> TRUE, op |-> "none", msg |-> << >>, cause |-> 0]

RetryInit ==
    /\ ctxDone = FALSE
    /\ workers = 1
    /\ retryCount \in 0 .. MaxRetry
    /\ operation \in Operations
    /\ attempt = 1
    /\ rpc = "loop"
    /\ calls = << >>
    /\ sleeps = 0
    /\ retryRet = RetryNil
    /\ PoolIdle
    /\ ListIdle
    /\ ExtIdle

\* for attempt := 1; attempt <= o.retryCount; ... { if err := fn(); err != nil {...}
\* return nil }
Invoke ==
    /\ rpc = "loop"
    /\ attempt <= retryCount
    /\ \E r \in FnResults :
         /\ calls' = Append(calls, r)
         /\ IF r.isNil
            THEN /\ retryRet' = RetryNil
                 /\ rpc' = "done"
            ELSE IF IsEmptyRemote(r.msg)
            THEN /\ retryRet' = Wrap(operation, r, Len(calls'))
                 /\ rpc' = "done"
            ELSE IF LastAttempt(attempt, retryCount)
            THEN /\ retryRet' = Wrap(operation, r, Len(calls'))
                 /\ rpc' = "done"
            ELSE /\ retryRet' = retryRet
                 /\ rpc' = "sleep"
    /\ UNCHANGED <<retryCount, operation, attempt, sleeps>>
    /\ UNCHANGED <<ctxDone, workers, poolVars, trackerVars, listVars, extVars>>

\* time.Sleep(5 * time.Second); continue (attempt++)
Sleep ==
    /\ rpc = "sleep"
    /\ sleeps' = sleeps + 1
    /\ attempt' = attempt + 1
    /\ rpc' = "loop"
    /\ UNCHANGED <<retryCount, operation, calls, retryRet>>
    /\ UNCHANGED <<ctxDone, workers, poolVars, trackerVars, listVars, extVars>>

\* the loop condition attempt <= o.retryCount is false: return nil
LoopExit ==
    /\ rpc = "loop"
    /\ attempt > retryCount
    /\ retryRet' = RetryNil
    /\ rpc' = "done"
    /\ UNCHANGED <<retryCount, operation, attempt, calls, sleeps>>
    /\ UNCHANGED <<ctxDone, workers, poolVars, trackerVars, listVars, extVars>>

\* the cancellation signal while RunWithRetry runs; RunWithRetry takes no
\* context and fn is called without one
RetryCancel ==
    /\ ~ctxDone
    /\ rpc \notin {"idle", "done"}
    /\ ctxDone' = TRUE
    /\ UNCHANGED <<workers, poolVars, trackerVars, listVars, retryVars, extVars>>

RetryNext ==
    \/ Invoke
    \/ Sleep
    \/ LoopExit
    \/ RetryCancel

SpecRetry == RetryInit /\ [][RetryNext]_vars

\* ---- ProgressTracker called from concurrent goroutines ------------------

CanLockAlways(writer, readers) == TRUE

\* t.mu.Lock() returns when no goroutine holds the mutex for writing or reading
CanLock(writer, readers) == writer = 0 /\ readers = 0

\* t.mu.RLock() returns when no goroutine holds the mutex for writing
CanRLock(writer) == writer = 0

ErrOf(success) == IF success THEN "nil" ELSE "error"

otherThanTracker == <<ctxDone, workers, poolVars, listVars, retryVars, cleanVars, mgrVars,
                      procVars, legVars, openVars, liveVars>>

TrackerInit ==
    /\ ctxDone = FALSE
    /\ workers = MaxThreads
    /\ DispatcherIdle
    /\ NewProgressTracker(MaxCalls)
    /\ ListIdle
    /\ RetryIdle
    /\ LockIdle
    /\ CleanIdle
    /\ ManagerIdle
    /\ ProcIdle
    /\ LegacyIdle
    /\ OpenIdle
    /\ LiveIdle

\* a goroutine takes the next repository and either announces it with
\* StartWorker first or reports its completion directly
Begin(t) ==
    /\ tpc[t] = "idle"
    /\ nextName < MaxCalls
    /\ nextName' = nextName + 1
    /\ tname' = [tname EXCEPT ![t] = nextName + 1]
    /\ \E first \in {"sWant", "cWant"} : tpc' = [tpc EXCEPT ![t] = first]
    /\ UNCHANGED <<muWriter, muReaders, tsucc, tmpC, rdpc, snapC, snapF, lockC, lockF, completions>>
    /\ UNCHANGED <<trackerVars, otherThanTracker>>

\* StartWorker: t.mu.Lock()
StartLock(t) ==
    /\ tpc[t] = "sWant"
    /\ CanLock(muWriter, muReaders)
    /\ muWriter' = t
    /\ tpc' = [tpc EXCEPT ![t] = "sHeld"]
    /\ UNCHANGED <<muReaders, tname, tsucc, tmpC, nextName, rdpc, snapC, snapF, lockC, lockF,
                   completions>>
    /\ UNCHANGED <<trackerVars, otherThanTracker>>

\* StartWorker: the map store, then the deferred t.mu.Unlock()
StartStore(t) ==
    /\ tpc[t] = "sHeld"
    /\ StartWorker(t, tname[t])
    /\ muWriter' = 0
    /\ tpc' = [tpc EXCEPT ![t] = "cWant"]
    /\ UNCHANGED <<muReaders, tname, tsucc, tmpC, nextName, rdpc, snapC, snapF, lockC, lockF,
                   completions>>
    /\ UNCHANGED otherThanTracker

\* CompleteRepository(repoName, success, err) is called: t.mu.Lock()
CompleteLock(t) ==
    /\ tpc[t] = "cWant"
    /\ CanLock(muWriter, muReaders)
    /\ muWriter' = t
    /\ \E success \in BOOLEAN : tsucc' = [tsucc EXCEPT ![t] = success]
    /\ tpc' = [tpc EXCEPT ![t] = "cHeld"]
    /\ UNCHANGED <<muReaders, tname, tmpC, nextName, rdpc, snapC, snapF, lockC, lockF,
                   completions>>
    /\ UNCHANGED <<trackerVars, otherThanTracker>>

\* CompleteRepository: t.completedRepos++ loads the counter ...
CompleteLoad(t) ==
    /\ tpc[t] = "cHeld"
    /\ tmpC' = [tmpC EXCEPT ![t] = completedRepos]
    /\ tpc' = [tpc EXCEPT ![t] = "cLoaded"]
    /\ UNCHANGED <<muWriter, muReaders, tname, tsucc, nextName, rdpc, snapC, snapF, lockC, lockF,
                   completions>>
    /\ UNCHANGED <<trackerVars, otherThanTracker>>

\* ... and stores the loaded value plus one
CompleteStore(t) ==
    /\ tpc[t] = "cLoaded"
    /\ completedRepos' = tmpC[t] + 1
    /\ tmpC' = [tmpC EXCEPT ![t] = 0]
    /\ tpc' = [tpc EXCEPT ![t] = "cStored"]
    /\ UNCHANGED <<muWriter, muReaders, tname, tsucc, nextName, rdpc, snapC, snapF, lockC, lockF,
                   completions>>
    /\ UNCHANGED <<totalRepos, failedRepos, workerStatuses, recentResults, otherThanTracker>>

\* CompleteRepository: if !success { t.failedRepos++ }, the worker status is
\* removed, the result is appended to the recent results, and the deferred
\* t.mu.Unlock() runs
CompleteLog(t) ==
    /\ tpc[t] = "cStored"
    /\ failedRepos' = FailedAfter(failedRepos, tsucc[t])
    /\ workerStatuses' \in StatusesAfter(workerStatuses, tname[t])
    /\ LET r == [Name |-> tname[t], Success |-> tsucc[t], Error |-> ErrOf(tsucc[t])]
       IN  /\ recentResults' = AppendRecent(recentResults, r)
           /\ completions' = Append(completions, r)
    /\ muWriter' = 0
    /\ tsucc' = [tsucc EXCEPT ![t] = TRUE]
    /\ tname' = [tname EXCEPT ![t] = 0]
    /\ tpc' = [tpc EXCEPT ![t] = "idle"]
    /\ UNCHANGED <<muReaders, tmpC, nextName, rdpc, snapC, snapF, lockC, lockF>>
    /\ UNCHANGED <<totalRepos, completedRepos, otherThanTracker>>

\* PrintSummary: t.mu.RLock(), and t.completedRepos is read for the
\* "Successful" line
SummaryLock ==
    /\ rdpc = "idle"
    /\ CanRLock(muWriter)
    /\ muReaders' = muReaders + 1
    /\ lockC' = completedRepos
    /\ lockF' = failedRepos
    /\ snapC' = completedRepos
    /\ rdpc' = "readC"
    /\ UNCHANGED <<muWriter, tpc, tname, tsucc, tmpC, nextName, snapF, completions>>
    /\ UNCHANGED <<trackerVars, otherThanTracker>>

\* PrintSummary: t.failedRepos is read
SummaryReadFailed ==
    /\ rdpc = "readC"
    /\ snapF' = failedRepos
    /\ rdpc' = "readF"
    /\ UNCHANGED <<muWriter, muReaders, tpc, tname, tsucc, tmpC, nextName, snapC, lockC, lockF,
                   completions>>
    /\ UNCHANGED <<trackerVars, otherThanTracker>>

\* PrintSummary: the deferred t.mu.RUnlock()
SummaryUnlock ==
    /\ rdpc = "readF"
    /\ muReaders' = muReaders - 1
    /\ rdpc' = "idle"
    /\ snapC' = 0
    /\ snapF' = 0
    /\ lockC' = 0
    /\ lockF' = 0
    /\ UNCHANGED <<muWriter, tpc, tname, tsucc, tmpC, nextName, completions>>
    /\ UNCHANGED <<trackerVars, otherThanTracker>>

TrackerNext ==
    \/ \E t \in Threads : Begin(t)
    \/ \E t \in Threads : StartLock(t)
    \/ \E t \in Threads : StartStore(t)
    \/ \E t \in Threads : CompleteLock(t)
    \/ \E t \in Threads : CompleteLoad(t)
    \/ \E t \in Threads : CompleteStore(t)
    \/ \E t \in Threads : CompleteLog(t)
    \/ SummaryLock
    \/ SummaryReadFailed
    \/ SummaryUnlock

SpecTracker == TrackerInit /\ [][TrackerNext]_vars

\* ---- FileManager.CleanupOldRepositories ---------------------------------

ShouldRemoveGitToo(isDir, name, valid) == isDir /\ ~valid

\* if entry.IsDir() && entry.Name() != ".git" { if !validRepos[entry.Name()] {
ShouldRemove(isDir, name, valid) == isDir /\ name # GitDir /\ ~valid

RECURSIVE Listing(_, _)
\* os.ReadDir: the entries present, sorted by name
Listing(kind, n) ==
    IF n > MaxNames THEN << >>
    ELSE IF kind[n] = "none" THEN Listing(kind, n + 1)
    ELSE <<n>> \o Listing(kind, n + 1)

otherThanCleanup == <<ctxDone, workers, poolVars, trackerVars, listVars, retryVars, lockVars,
                      mgrVars, procVars, legVars, openVars, liveVars>>

CleanupInit ==
    /\ ctxDone = FALSE
    /\ workers = 1
    /\ PoolIdle
    /\ ListIdle
    /\ RetryIdle
    /\ LockIdle
    /\ ManagerIdle
    /\ ProcIdle
    /\ LegacyIdle
    /\ OpenIdle
    /\ LiveIdle
    /\ entryKind \in [Names -> {"none", "dir", "file"}]
    /\ initKind = entryKind
    /\ validRepos \in SUBSET Names
    /\ entries = << >>
    /\ cpos = 0
    /\ cpc = "start"
    /\ cleanRet = "none"
    /\ synced = {}
    /\ syncFailed = {}

\* entries, err := os.ReadDir(f.config.OutputDir) succeeds
ReadDirOk ==
    /\ cpc = "start"
    /\ entries' = Listing(entryKind, 0)
    /\ cpos' = 1
    /\ cpc' = "loop"
    /\ UNCHANGED <<entryKind, initKind, validRepos, cleanRet, synced, syncFailed>>
    /\ UNCHANGED otherThanCleanup

\* os.ReadDir fails: return "error reading output directory"
ReadDirFails ==
    /\ cpc = "start"
    /\ cpc' = "done"
    /\ cleanRet' = "error reading output directory"
    /\ UNCHANGED <<entryKind, initKind, validRepos, entries, cpos, synced, syncFailed>>
    /\ UNCHANGED otherThanCleanup

\* an entry the loop leaves alone
KeepEntry ==
    /\ cpc = "loop"
    /\ cpos <= Len(entries)
    /\ LET name == entries[cpos]
       IN  ~ShouldRemove(entryKind[name] = "dir", name, name \in validRepos)
    /\ cpos' = cpos + 1
    /\ UNCHANGED <<entryKind, initKind, validRepos, entries, cpc, cleanRet, synced, syncFailed>>
    /\ UNCHANGED otherThanCleanup

\* os.RemoveAll(fullPath) succeeds
RemoveEntry ==
    /\ cpc = "loop"
    /\ cpos <= Len(entries)
    /\ LET name == entries[cpos]
       IN  /\ ShouldRemove(entryKind[name] = "dir", name, name \in validRepos)
           /\ entryKind' = [entryKind EXCEPT ![name] = "none"]
    /\ cpos' = cpos + 1
    /\ UNCHANGED <<initKind, validRepos, entries, cpc, cleanRet, synced, syncFailed>>
    /\ UNCHANGED otherThanCleanup

\* os.RemoveAll(fullPath) fails: return "error removing directory"
RemoveFails ==
    /\ cpc = "loop"
    /\ cpos <= Len(entries)
    /\ LET name == entries[cpos]
       IN  ShouldRemove(entryKind[name] = "dir", name, name \in validRepos)
    /\ cpc' = "done"
    /\ cleanRet' = "error removing directory"
    /\ UNCHANGED <<entryKind, initKind, validRepos, entries, cpos, synced, syncFailed>>
    /\ UNCHANGED otherThanCleanup

\* the loop is over: return nil
CleanupReturn ==
    /\ cpc = "loop"
    /\ cpos > Len(entries)
    /\ cpc' = "done"
    /\ cleanRet' = "nil"
    /\ UNCHANGED <<entryKind, initKind, validRepos, entries, cpos, synced, syncFailed>>
    /\ UNCHANGED otherThanCleanup

\* Processor.Run goes on to ProcessRepository for a repository whose path
\* exists: updateRepository runs, succeeds or fails, and the entry stays
SyncPresent(name) ==
    /\ cleanRet = "nil"
    /\ name \in validRepos \ synced
    /\ entryKind[name] # "none"
    /\ synced' = synced \cup {name}
    /\ \/ entryKind[name] = "dir" /\ syncFailed' = syncFailed
       \/ syncFailed' = syncFailed \cup {name}
    /\ UNCHANGED <<entryKind, initKind, validRepos, entries, cpos, cpc, cleanRet>>
    /\ UNCHANGED otherThanCleanup

\* ProcessRepository for a repository whose path does not exist:
\* cloneRepository creates the directory, or fails and leaves none
SyncAbsent(name) ==
    /\ cleanRet = "nil"
    /\ name \in validRepos \ synced
    /\ entryKind[name] = "none"
    /\ synced' = synced \cup {name}
    /\ \/ entryKind' = [entryKind EXCEPT ![name] = "dir"] /\ syncFailed' = syncFailed
       \/ entryKind' = entryKind /\ syncFailed' = syncFailed \cup {name}
    /\ UNCHANGED <<initKind, validRepos, entries, cpos, cpc, cleanRet>>
    /\ UNCHANGED otherThanCleanup

CleanupNext ==
    \/ ReadDirOk
    \/ ReadDirFails
    \/ KeepEntry
    \/ RemoveEntry
    \/ RemoveFails
    \/ CleanupReturn
    \/ \E name \in Names : SyncPresent(name)
    \/ \E name \in Names : SyncAbsent(name)

SpecCleanup == CleanupInit /\ [][CleanupNext]_vars

\* ---- Manager.ProcessRepository ------------------------------------------

\* commits: the remote branch is at RemoteHead; OldHead is an ancestor of it,
\* DivergedHead is a local commit the remote branch does not contain
OldHead == 1
RemoteHead == 2
DivergedHead == 3

Err(parts) == [isNil |-> FALSE, msg |-> parts]

\* fmt.Errorf("repository is empty: %w", err) when the message contains
\* "remote repository is empty", fmt.Errorf("error cloning repository: %w", err) otherwise
CloneWrap(m) ==
    IF IsEmptyRemote(<<m>>) THEN <<"repository is empty", m>>
    ELSE <<"error cloning repository", m>>

IsEmptyCloneNever(msg) == FALSE

\* strings.Contains(cloneErr.Error(), "repository is empty")
IsEmptyClone(msg) == Contains(msg, "repository is empty")

IsNotFoundNever(msg) == FALSE

\* strings.Contains(cloneErr.Error(), "repository not found") || ... "not found"
\* || ... "does not exist"
IsNotFound(msg) ==
    \/ Contains(msg, "repository not found")
    \/ Contains(msg, "not found")
    \/ Contains(msg, "does not exist")

\* if attemptCount < m.config.RetryCount
MoreCloneAttempts(a, count) == a < count

CloneLoopRunsOnceAtLeast(a, count) == a <= count \/ a = 1

\* for attemptCount = 1; attemptCount <= m.config.RetryCount; attemptCount++
CloneLoopRuns(a, count) == a <= count

\* what git.PlainClone, repo.Fetch and w.Pull may come back with
RemoteOutcomes(kind) ==
    CASE kind = "normal" -> {"ok", "network error"}
      [] kind = "empty" -> {"remote repository is empty", "network error"}
      [] kind = "gone" -> {"repository not found", "network error"}

PullOutcomes(kind, head) ==
    IF kind = "normal" /\ head = DivergedHead
    THEN {"non-fast-forward update", "network error"}
    ELSE RemoteOutcomes(kind)

LocalStates ==
    {NoDir, [state |-> "plain", head |-> 0, url |-> "none", ref |-> 0]}
    \cup {[state |-> "repo", head |-> h, url |-> u,
           ref |-> IF h = RemoteHead THEN RemoteHead ELSE OldHead] :
             h \in {OldHead, RemoteHead, DivergedHead}, u \in {"clone", "auth", "none"}}

Dir == [state |-> dirState, head |-> localHead, url |-> originURL, ref |-> remoteRef]

gitVars == <<dirState, localHead, originURL, remoteRef>>
cfgVars == <<RetryCount, remoteKind>>
runVars == <<run, startDir, prevRet>>
logVars == <<cloneLog, fetchLog, pullLog, msleeps>>
otherThanManager == <<ctxDone, workers, poolVars, listVars, retryVars, lockVars, cleanVars,
                      procVars, legVars, openVars, liveVars>>

ManagerInit ==
    /\ ctxDone = FALSE
    /\ workers = 1
    /\ DispatcherIdle
    /\ NewProgressTracker(MaxRuns)
    /\ ListIdle
    /\ RetryIdle
    /\ LockIdle
    /\ CleanIdle
    /\ ProcIdle
    /\ LegacyIdle
    /\ OpenIdle
    /\ LiveIdle
    /\ RetryCount \in -1 .. MaxRetry
    /\ remoteKind \in {"normal", "empty", "gone"}
    /\ \E d \in LocalStates :
         /\ dirState = d.state
         /\ localHead = d.head
         /\ originURL = d.url
         /\ remoteRef = d.ref
         /\ startDir = d
    /\ cached = FALSE
    /\ repoMutex = FALSE
    /\ run = 1
    /\ prevRet = NilErr
    /\ mgpc = "stat"
    /\ attemptCount = 0
    /\ cloneLog = << >>
    /\ fetchLog = << >>
    /\ pullLog = << >>
    /\ msleeps = 0
    /\ mret = NilErr

PathExistsOnlyRepo(state) == state = "repo"

\* if _, err := os.Stat(repoPath); err == nil
PathExists(state) == state # "absent"

\* os.Stat(repoPath) succeeds: updateRepository
StatPresent ==
    /\ mgpc = "stat"
    /\ PathExists(dirState)
    /\ mgpc' = "open"
    /\ UNCHANGED <<gitVars, cfgVars, runVars, logVars, cached, repoMutex, attemptCount, mret>>
    /\ UNCHANGED <<trackerVars, otherThanManager>>

\* os.IsNotExist(err): cloneRepository, attemptCount = 1
StatAbsent ==
    /\ mgpc = "stat"
    /\ ~PathExists(dirState)
    /\ mgpc' = "clone"
    /\ attemptCount' = 1
    /\ UNCHANGED <<gitVars, cfgVars, runVars, logVars, cached, repoMutex, mret>>
    /\ UNCHANGED <<trackerVars, otherThanManager>>

\* os.Stat fails with another error, which is returned
StatFails ==
    /\ mgpc = "stat"
    /\ mgpc' = "ret"
    /\ mret' = Err(<<"stat error">>)
    /\ UNCHANGED <<gitVars, cfgVars, runVars, logVars, cached, repoMutex, attemptCount>>
    /\ UNCHANGED <<trackerVars, otherThanManager>>

\* one pass of the loop of cloneRepository: git.PlainClone through
\* Operations.CloneRepository, then the tests on cloneErr; a failed clone
\* leaves no directory behind
CloneAttempt ==
    /\ mgpc = "clone"
    /\ CloneLoopRuns(attemptCount, RetryCount)
    /\ \E out \in RemoteOutcomes(remoteKind) :
         /\ cloneLog' = Append(cloneLog, out)
         /\ IF out = "ok"
            THEN /\ dirState' = "repo"
                 /\ localHead' = RemoteHead
                 /\ originURL' = "clone"
                 /\ remoteRef' = RemoteHead
                 /\ mret' = NilErr
                 /\ mgpc' = "ret"
            ELSE /\ UNCHANGED gitVars
                 /\ IF IsEmptyClone(CloneWrap(out))
                    THEN mret' = NilErr /\ mgpc' = "ret"
                    ELSE IF IsNotFound(CloneWrap(out))
                    THEN mret' = Err(CloneWrap(out)) /\ mgpc' = "ret"
                    ELSE IF MoreCloneAttempts(attemptCount, RetryCount)
                    THEN mret' = mret /\ mgpc' = "cloneSleep"
                    ELSE mret' = Err(CloneWrap(out)) /\ mgpc' = "ret"
    /\ UNCHANGED <<cfgVars, runVars, fetchLog, pullLog, msleeps, cached, repoMutex, attemptCount>>
    /\ UNCHANGED <<trackerVars, otherThanManager>>

\* time.Sleep(5 * time.Second); attemptCount++
CloneSleep ==
    /\ mgpc = "cloneSleep"
    /\ msleeps' = msleeps + 1
    /\ attemptCount' = attemptCount + 1
    /\ mgpc' = "clone"
    /\ UNCHANGED <<gitVars, cfgVars, runVars, cloneLog, fetchLog, pullLog, cached, repoMutex, mret>>
    /\ UNCHANGED <<trackerVars, otherThanManager>>

\* attemptCount <= m.config.RetryCount is false: return nil
CloneLoopExit ==
    /\ mgpc = "clone"
    /\ ~CloneLoopRuns(attemptCount, RetryCount)
    /\ mret' = NilErr
    /\ mgpc' = "ret"
    /\ UNCHANGED <<gitVars, cfgVars, runVars, logVars, cached, repoMutex, attemptCount>>
    /\ UNCHANGED <<trackerVars, otherThanManager>>

\* openRepository: m.repoMutex.Lock(); a cached repository is returned (the
\* deferred Unlock runs), otherwise git.PlainOpen is called with the mutex held
OpenLock ==
    /\ mgpc = "open"
    /\ ~repoMutex
    /\ IF cached
       THEN /\ repoMutex' = FALSE
            /\ mgpc' = "setURL"
       ELSE /\ repoMutex' = TRUE
            /\ mgpc' = "plainOpen"
    /\ UNCHANGED <<gitVars, cfgVars, runVars, logVars, cached, attemptCount, mret>>
    /\ UNCHANGED <<trackerVars, otherThanManager>>

\* git.PlainOpen succeeds: the repository is cached, the deferred
\* m.repoMutex.Unlock() runs
OpenOk ==
    /\ mgpc = "plainOpen"
    /\ dirState = "repo"
    /\ cached' = TRUE
    /\ repoMutex' = FALSE
    /\ mgpc' = "setURL"
    /\ UNCHANGED <<gitVars, cfgVars, runVars, logVars, attemptCount, mret>>
    /\ UNCHANGED <<trackerVars, otherThanManager>>

\* git.PlainOpen fails: "error opening repository: %w", the deferred
\* m.repoMutex.Unlock() runs
OpenFails ==
    /\ mgpc = "plainOpen"
    /\ dirState # "repo"
    /\ mret' = Err(<<"error opening repository", "repository does not exist">>)
    /\ repoMutex' = FALSE
    /\ mgpc' = "ret"
    /\ UNCHANGED <<gitVars, cfgVars, runVars, logVars, cached, attemptCount>>
    /\ UNCHANGED <<trackerVars, otherThanManager>>

\* UpdateRemoteURL: remote "origin" is deleted and created again with
\* URLs = [authURL]; then GetRepositoryHead reads the local HEAD
SetURLOk ==
    /\ mgpc = "setURL"
    /\ originURL # "none"
    /\ originURL' = "auth"
    /\ attemptCount' = 1
    /\ mgpc' = "fetch"
    /\ UNCHANGED <<dirState, localHead, remoteRef, cfgVars, runVars, logVars, cached, repoMutex, mret>>
    /\ UNCHANGED <<trackerVars, otherThanManager>>

\* UpdateRemoteURL: repo.Remote("origin") fails: "error getting remote: %w"
SetURLFails ==
    /\ mgpc = "setURL"
    /\ originURL = "none"
    /\ mret' = Err(<<"error getting remote", "remote not found">>)
    /\ mgpc' = "ret"
    /\ UNCHANGED <<gitVars, cfgVars, runVars, logVars, cached, repoMutex, attemptCount>>
    /\ UNCHANGED <<trackerVars, otherThanManager>>

\* FetchRepository: one pass of RunWithRetry("fetching updates for") around
\* repo.Fetch
FetchAttempt ==
    /\ mgpc = "fetch"
    /\ attemptCount <= RetryCount
    /\ \E out \in RemoteOutcomes(remoteKind) :
         /\ fetchLog' = Append(fetchLog, out)
         /\ IF out = "ok"
            THEN /\ remoteRef' = RemoteHead
                 /\ mret' = mret
                 /\ mgpc' = "hash"
            ELSE /\ remoteRef' = remoteRef
                 /\ IF \/ IsEmptyRemote(<<"error fetching", out>>)
                       \/ LastAttempt(attemptCount, RetryCount)
                    THEN /\ mret' = Err(<<"fetching updates for", "error fetching", out>>)
                         /\ mgpc' = "ret"
                    ELSE /\ mret' = mret
                         /\ mgpc' = "fetchSleep"
    /\ UNCHANGED <<dirState, localHead, originURL, cfgVars, runVars, cloneLog, pullLog, msleeps,
                   cached, repoMutex, attemptCount>>
    /\ UNCHANGED <<trackerVars, otherThanManager>>

\* RunWithRetry: time.Sleep(5 * time.Second); continue
FetchSleep ==
    /\ mgpc = "fetchSleep"
    /\ msleeps' = msleeps + 1
    /\ attemptCount' = attemptCount + 1
    /\ mgpc' = "fetch"
    /\ UNCHANGED <<gitVars, cfgVars, runVars, cloneLog, fetchLog, pullLog, cached, repoMutex, mret>>
    /\ UNCHANGED <<trackerVars, otherThanManager>>

\* RunWithRetry: attempt <= o.retryCount is false, nil is returned without a fetch
FetchLoopExit ==
    /\ mgpc = "fetch"
    /\ attemptCount > RetryCount
    /\ mgpc' = "hash"
    /\ UNCHANGED <<gitVars, cfgVars, runVars, logVars, cached, repoMutex, attemptCount, mret>>
    /\ UNCHANGED <<trackerVars, otherThanManager>>

NeedsPullAlways(beforeHash, remoteHash) == TRUE

\* if beforeHash != remoteHash
NeedsPull(beforeHash, remoteHash) == beforeHash # remoteHash

\* GetRemoteHash; beforeHash == remoteHash: return nil
HashesEqual ==
    /\ mgpc = "hash"
    /\ ~NeedsPull(localHead, remoteRef)
    /\ mret' = NilErr
    /\ mgpc' = "ret"
    /\ UNCHANGED <<gitVars, cfgVars, runVars, logVars, cached, repoMutex, attemptCount>>
    /\ UNCHANGED <<trackerVars, otherThanManager>>

\* beforeHash != remoteHash: PullRepository
HashesDiffer ==
    /\ mgpc = "hash"
    /\ NeedsPull(localHead, remoteRef)
    /\ attemptCount' = 1
    /\ mgpc' = "pull"
    /\ UNCHANGED <<gitVars, cfgVars, runVars, logVars, cached, repoMutex, mret>>
    /\ UNCHANGED <<trackerVars, otherThanManager>>

PullErrorSwallowed(out) == NilErr

\* fmt.Errorf("error pulling: %w", err) wrapped by RunWithRetry as
\* fmt.Errorf("error %s %s: %w", operation, repoName, err)
PullError(out) == Err(<<"pulling updates for", "error pulling", out>>)

\* PullRepository: one pass of RunWithRetry("pulling updates for") around
\* w.Pull; updateRepository returns the error RunWithRetry returns
PullAttempt ==
    /\ mgpc = "pull"
    /\ attemptCount <= RetryCount
    /\ \E out \in PullOutcomes(remoteKind, localHead) :
         /\ pullLog' = Append(pullLog, out)
         /\ IF out = "ok"
            THEN /\ localHead' = RemoteHead
                 /\ remoteRef' = RemoteHead
                 /\ mret' = NilErr
                 /\ mgpc' = "ret"
            ELSE /\ UNCHANGED <<localHead, remoteRef>>
                 /\ IF \/ IsEmptyRemote(<<"error pulling", out>>)
                       \/ LastAttempt(attemptCount, RetryCount)
                    THEN /\ mret' = PullError(out)
                         /\ mgpc' = "ret"
                    ELSE /\ mret' = mret
                         /\ mgpc' = "pullSleep"
    /\ UNCHANGED <<dirState, originURL, cfgVars, runVars, cloneLog, fetchLog, msleeps, cached, repoMutex,
                   attemptCount>>
    /\ UNCHANGED <<trackerVars, otherThanManager>>

\* RunWithRetry: time.Sleep(5 * time.Second); continue
PullSleep ==
    /\ mgpc = "pullSleep"
    /\ msleeps' = msleeps + 1
    /\ attemptCount' = attemptCount + 1
    /\ mgpc' = "pull"
    /\ UNCHANGED <<gitVars, cfgVars, runVars, cloneLog, fetchLog, pullLog, cached, repoMutex, mret>>
    /\ UNCHANGED <<trackerVars, otherThanManager>>

\* RunWithRetry: attempt <= o.retryCount is false, nil is returned without a pull
PullLoopExit ==
    /\ mgpc = "pull"
    /\ attemptCount > RetryCount
    /\ mret' = NilErr
    /\ mgpc' = "ret"
    /\ UNCHANGED <<gitVars, cfgVars, runVars, logVars, cached, repoMutex, attemptCount>>
    /\ UNCHANGED <<trackerVars, otherThanManager>>

\* the worker reports what ProcessRepository returned:
\* CompleteRepository(repoName, err == nil, err)
Report ==
    /\ mgpc = "ret"
    /\ LET err == IF mret.isNil THEN "nil" ELSE "error"
       IN  CompleteRepository(run, Success(err), err)
    /\ mgpc' = "reported"
    /\ UNCHANGED <<gitVars, cfgVars, runVars, logVars, cached, repoMutex, attemptCount, mret>>
    /\ UNCHANGED otherThanManager

\* the program is run again: a new Manager with an empty cache, the remote
\* repository and the local directory as they are
NextRun ==
    /\ mgpc = "reported"
    /\ run < MaxRuns
    /\ run' = run + 1
    /\ startDir' = Dir
    /\ prevRet' = mret
    /\ cached' = FALSE
    /\ repoMutex' = FALSE
    /\ attemptCount' = 0
    /\ cloneLog' = << >>
    /\ fetchLog' = << >>
    /\ pullLog' = << >>
    /\ msleeps' = 0
    /\ mret' = NilErr
    /\ mgpc' = "stat"
    /\ UNCHANGED <<gitVars, cfgVars>>
    /\ UNCHANGED <<trackerVars, otherThanManager>>

ManagerNext ==
    \/ StatPresent
    \/ StatAbsent
    \/ StatFails
    \/ CloneAttempt
    \/ CloneSleep
    \/ CloneLoopExit
    \/ OpenLock
    \/ OpenOk
    \/ OpenFails
    \/ SetURLOk
    \/ SetURLFails
    \/ FetchAttempt
    \/ FetchSleep
    \/ FetchLoopExit
    \/ HashesEqual
    \/ HashesDiffer
    \/ PullAttempt
    \/ PullSleep
    \/ PullLoopExit
    \/ Report
    \/ NextRun

SpecManager == ManagerInit /\ [][ManagerNext]_vars

\* ---- Processor.Run ------------------------------------------------------

\* what ListRepositories returns when it fails
ListFailures == {"error fetching repositories", "context canceled"}

\* what the output directory may hold as repository_list.txt before the run
OldManifests == {NoFile, [exists |-> TRUE, lines |-> <<1, 2>>]}

\* the listings ListRepositories may return: distinct repository names
ListedSeqs ==
    {s \in UNION {[1 .. n -> Names \ {GitDir}] : n \in 0 .. MaxNames} :
        \A i, j \in DOMAIN s : i # j => s[i] # s[j]}

\* fmt.Sprintf("%s - %s\n", *repo.Name, httpsURL): one line for the repository
ManifestLine(name) == name

NamesOf(s) == {s[k] : k \in DOMAIN s}

AbortsNever(err) == FALSE

\* if err != nil { return err }
Aborts(err) == err # "nil"

RunInit ==
    /\ ctxDone = FALSE
    /\ workers = 1
    /\ PoolIdle
    /\ ListIdle
    /\ RetryIdle
    /\ LockIdle
    /\ ManagerIdle
    /\ LegacyIdle
    /\ OpenIdle
    /\ LiveIdle
    /\ entryKind \in [Names -> {"none", "dir", "file"}]
    /\ initKind = entryKind
    /\ validRepos = {}
    /\ entries = << >>
    /\ cpos = 0
    /\ cpc = "idle"
    /\ cleanRet = "none"
    /\ synced = {}
    /\ syncFailed = {}
    /\ ppc = "list"
    /\ listed = << >>
    /\ manifest \in OldManifests
    /\ manifestInit = manifest
    /\ wpos = 0
    /\ errs = NoErrs
    /\ runRet = "none"
    /\ summaries = 0

runOther == <<workers, poolVars, listVars, retryVars, lockVars, mgrVars, legVars, openVars, liveVars>>

\* allRepos, err := p.repoLister.ListRepositories(ctx, p.config.OrgName) succeeds
ListOk ==
    /\ ppc = "list"
    /\ \E s \in ListedSeqs : listed' = s
    /\ errs' = [errs EXCEPT !.list = "nil"]
    /\ ppc' = "listed"
    /\ UNCHANGED <<manifest, manifestInit, wpos, runRet, summaries>>
    /\ UNCHANGED <<ctxDone, trackerVars, cleanVars, runOther>>

\* ListRepositories fails, with a listing error or because ctx was cancelled
ListFails ==
    /\ ppc = "list"
    /\ \E e \in ListFailures :
         /\ errs' = [errs EXCEPT !.list = e]
         /\ ctxDone' = (e = "context canceled")
    /\ ppc' = "listed"
    /\ UNCHANGED <<listed, manifest, manifestInit, wpos, runRet, summaries>>
    /\ UNCHANGED <<trackerVars, cleanVars, runOther>>

\* if err != nil { return err }, else SaveRepositoryList is called
AfterList ==
    /\ ppc = "listed"
    /\ IF Aborts(errs.list)
       THEN runRet' = errs.list /\ ppc' = "done"
       ELSE runRet' = runRet /\ ppc' = "create"
    /\ UNCHANGED <<listed, manifest, manifestInit, wpos, errs, summaries>>
    /\ UNCHANGED <<ctxDone, trackerVars, cleanVars, runOther>>

\* file, err := os.Create(repoListPath) succeeds: the file exists and is empty
CreateOk ==
    /\ ppc = "create"
    /\ manifest' = [exists |-> TRUE, lines |-> << >>]
    /\ wpos' = 1
    /\ ppc' = "write"
    /\ UNCHANGED <<listed, manifestInit, errs, runRet, summaries>>
    /\ UNCHANGED <<ctxDone, trackerVars, cleanVars, runOther>>

\* os.Create fails: return "error creating repository list file"
CreateFails ==
    /\ ppc = "create"
    /\ errs' = [errs EXCEPT !.save = "error creating repository list file"]
    /\ ppc' = "saved"
    /\ UNCHANGED <<listed, manifest, manifestInit, wpos, runRet, summaries>>
    /\ UNCHANGED <<ctxDone, trackerVars, cleanVars, runOther>>

\* file.WriteString(...) succeeds for the next repository
WriteLine ==
    /\ ppc = "write"
    /\ wpos <= Len(listed)
    /\ manifest' = [manifest EXCEPT !.lines = Append(@, ManifestLine(listed[wpos]))]
    /\ wpos' = wpos + 1
    /\ UNCHANGED <<ppc, listed, manifestInit, errs, runRet, summaries>>
    /\ UNCHANGED <<ctxDone, trackerVars, cleanVars, runOther>>

\* file.WriteString fails: return "error writing to repository list file"
WriteFails ==
    /\ ppc = "write"
    /\ wpos <= Len(listed)
    /\ errs' = [errs EXCEPT !.save = "error writing to repository list file"]
    /\ ppc' = "saved"
    /\ UNCHANGED <<listed, manifest, manifestInit, wpos, runRet, summaries>>
    /\ UNCHANGED <<ctxDone, trackerVars, cleanVars, runOther>>

\* the loop over allRepos is over: return nil
WriteDone ==
    /\ ppc = "write"
    /\ wpos > Len(listed)
    /\ errs' = [errs EXCEPT !.save = "nil"]
    /\ ppc' = "saved"
    /\ UNCHANGED <<listed, manifest, manifestInit, wpos, runRet, summaries>>
    /\ UNCHANGED <<ctxDone, trackerVars, cleanVars, runOther>>

\* if err := SaveRepositoryList(...); err != nil { return err }, else
\* CleanupOldRepositories is called and builds validRepos from allRepos
AfterSave ==
    /\ ppc = "saved"
    /\ IF Aborts(errs.save)
       THEN /\ runRet' = errs.save
            /\ ppc' = "done"
            /\ UNCHANGED <<validRepos, cpc>>
       ELSE /\ runRet' = runRet
            /\ ppc' = "cleanup"
            /\ validRepos' = NamesOf(listed)
            /\ cpc' = "start"
    /\ UNCHANGED <<listed, manifest, manifestInit, wpos, errs, summaries>>
    /\ UNCHANGED <<entryKind, initKind, entries, cpos, cleanRet, synced, syncFailed>>
    /\ UNCHANGED <<ctxDone, trackerVars, runOther>>

\* if err := CleanupOldRepositories(allRepos); err != nil { return err }, else
\* progress.NewProgressTracker(len(allRepos), ...) and processRepositories
AfterCleanup ==
    /\ ppc = "cleanup"
    /\ cpc = "done"
    /\ errs' = [errs EXCEPT !.cleanup = cleanRet]
    /\ IF Aborts(cleanRet)
       THEN /\ runRet' = cleanRet
            /\ ppc' = "done"
            /\ UNCHANGED trackerVars
       ELSE /\ runRet' = runRet
            /\ ppc' = "sync"
            /\ totalRepos' = Len(listed)
            /\ completedRepos' = 0
            /\ failedRepos' = 0
            /\ workerStatuses' = << >>
            /\ recentResults' = << >>
    /\ UNCHANGED <<listed, manifest, manifestInit, wpos, summaries>>
    /\ UNCHANGED <<ctxDone, cleanVars, runOther>>

\* the worker pool runs gitManager.ProcessRepository for a repository whose
\* path exists
ProcessPresent(name) ==
    /\ ppc = "sync"
    /\ SyncPresent(name)

\* the worker pool runs gitManager.ProcessRepository for a repository whose
\* path does not exist
ProcessAbsent(name) ==
    /\ ppc = "sync"
    /\ SyncAbsent(name)

\* the context is cancelled while the pool is working
CancelSync ==
    /\ ppc = "sync"
    /\ ~ctxDone
    /\ ctxDone' = TRUE
    /\ UNCHANGED <<procVars, trackerVars, cleanVars, runOther>>

\* processRepositories returns: every repository was processed, or the pool
\* stopped admitting after the cancellation; PrintSummary; return err or nil
PoolReturns ==
    /\ ppc = "sync"
    /\ ctxDone \/ synced = validRepos
    /\ errs' = [errs EXCEPT !.sync = PoolResult(ctxDone)]
    /\ summaries' = summaries + 1
    /\ runRet' = PoolResult(ctxDone)
    /\ ppc' = "done"
    /\ UNCHANGED <<listed, manifest, manifestInit, wpos>>
    /\ UNCHANGED <<ctxDone, trackerVars, cleanVars, runOther>>

RunNext ==
    \/ ListOk
    \/ ListFails
    \/ AfterList
    \/ CreateOk
    \/ CreateFails
    \/ WriteLine
    \/ WriteFails
    \/ WriteDone
    \/ AfterSave
    \/ ReadDirOk
    \/ ReadDirFails
    \/ KeepEntry
    \/ RemoveEntry
    \/ RemoveFails
    \/ CleanupReturn
    \/ AfterCleanup
    \/ \E name \in Names : ProcessPresent(name)
    \/ \E name \in Names : ProcessAbsent(name)
    \/ CancelSync
    \/ PoolReturns

SpecRun == RunInit /\ [][RunNext]_vars

\* ---- Processor.runCommandWithRetry and the counters of p.stats -----------

\* the operation labels processRepository passes
Labels == {<<"cloning">>, <<"fetching updates for">>, <<"pulling updates for">>}

SucceededOnRetryAlways(n) == n >= 1

\* if attempt > 1 { ... the retry-success counters ... }
SucceededOnRetry(n) == n > 1

\* the counter the label selects: cloneRetrySuccess, fetchRetrySuccess or none
CounterOf(op) ==
    IF Contains(op, "cloning") THEN "clone"
    ELSE IF Contains(op, "fetching") THEN "fetch"
    ELSE "none"

CallRecord(t, n, op, a, ok) == [worker |-> t, call |-> n, op |-> op, attempt |-> a, ok |-> ok]

LegacyInit ==
    /\ ctxDone = FALSE
    /\ workers = MaxThreads
    /\ PoolIdle
    /\ ListIdle
    /\ RetryIdle
    /\ LockIdle
    /\ CleanIdle
    /\ ManagerIdle
    /\ ProcIdle
    /\ OpenIdle
    /\ LiveIdle
    /\ lgRetryCount \in 0 .. MaxRetry
    /\ lgpc = [t \in Threads |-> "idle"]
    /\ lgop = [t \in Threads |-> "none"]
    /\ lgattempt = [t \in Threads |-> 0]
    /\ lgtmp = [t \in Threads |-> 0]
    /\ lgn = [t \in Threads |-> 0]
    /\ printMutex = 0
    /\ cloneRetrySuccess = 0
    /\ fetchRetrySuccess = 0
    /\ retriedFailure = 0
    /\ finished = {}

otherThanLegacy == <<ctxDone, workers, poolVars, trackerVars, listVars, retryVars, lockVars,
                     cleanVars, mgrVars, procVars, openVars, liveVars>>
statsVars == <<cloneRetrySuccess, fetchRetrySuccess, retriedFailure>>

\* a worker calls runCommandWithRetry: for attempt := 1; attempt <=
\* p.config.RetryCount; with a count of 0 the loop body never runs: return nil
LegacyCall(t) ==
    /\ lgpc[t] = "idle"
    /\ lgn[t] < MaxOps
    /\ lgn' = [lgn EXCEPT ![t] = @ + 1]
    /\ \E op \in Labels :
         /\ lgop' = [lgop EXCEPT ![t] = op]
         /\ IF 1 <= lgRetryCount
            THEN /\ lgattempt' = [lgattempt EXCEPT ![t] = 1]
                 /\ lgpc' = [lgpc EXCEPT ![t] = "run"]
                 /\ finished' = finished
            ELSE /\ lgattempt' = [lgattempt EXCEPT ![t] = 0]
                 /\ lgpc' = lgpc
                 /\ finished' = finished \cup {CallRecord(t, lgn[t] + 1, op, 0, TRUE)}
    /\ UNCHANGED <<lgRetryCount, lgtmp, printMutex, statsVars>>
    /\ UNCHANGED otherThanLegacy

\* cmd.CombinedOutput() succeeds: on the first attempt return nil, on a later
\* one go on to the counters
LegacyCmdOk(t) ==
    /\ lgpc[t] = "run"
    /\ IF SucceededOnRetry(lgattempt[t])
       THEN /\ lgpc' = [lgpc EXCEPT ![t] = "lock"]
            /\ finished' = finished
       ELSE /\ lgpc' = [lgpc EXCEPT ![t] = "idle"]
            /\ finished' = finished \cup {CallRecord(t, lgn[t], lgop[t], lgattempt[t], TRUE)}
    /\ UNCHANGED <<lgRetryCount, lgop, lgattempt, lgtmp, lgn, printMutex, statsVars>>
    /\ UNCHANGED otherThanLegacy

\* cmd.CombinedOutput() fails: the last attempt goes on to retriedFailure,
\* any other to the 5 second delay
LegacyCmdFails(t) ==
    /\ lgpc[t] = "run"
    /\ lgpc' = [lgpc EXCEPT ![t] = IF lgattempt[t] = lgRetryCount THEN "failed" ELSE "sleep"]
    /\ UNCHANGED <<lgRetryCount, lgop, lgattempt, lgtmp, lgn, printMutex, statsVars, finished>>
    /\ UNCHANGED otherThanLegacy

\* p.stats.printMutex.Lock(); p.stats.retriedFailure++; Unlock(); return the error
LegacyCountFailure(t) ==
    /\ lgpc[t] = "failed"
    /\ CanLock(printMutex, 0)
    /\ retriedFailure' = retriedFailure + 1
    /\ lgpc' = [lgpc EXCEPT ![t] = "idle"]
    /\ finished' = finished \cup {CallRecord(t, lgn[t], lgop[t], lgattempt[t], FALSE)}
    /\ UNCHANGED <<lgRetryCount, lgop, lgattempt, lgtmp, lgn, printMutex,
                   cloneRetrySuccess, fetchRetrySuccess>>
    /\ UNCHANGED otherThanLegacy

\* time.Sleep(5 * time.Second); cmd = exec.Command(...); continue
LegacySleep(t) ==
    /\ lgpc[t] = "sleep"
    /\ lgattempt' = [lgattempt EXCEPT ![t] = @ + 1]
    /\ lgpc' = [lgpc EXCEPT ![t] = "run"]
    /\ UNCHANGED <<lgRetryCount, lgop, lgtmp, lgn, printMutex, statsVars, finished>>
    /\ UNCHANGED otherThanLegacy

\* p.stats.printMutex.Lock()
LegacyLock(t) ==
    /\ lgpc[t] = "lock"
    /\ CanLock(printMutex, 0)
    /\ printMutex' = t
    /\ lgpc' = [lgpc EXCEPT ![t] = "load"]
    /\ UNCHANGED <<lgRetryCount, lgop, lgattempt, lgtmp, lgn, statsVars, finished>>
    /\ UNCHANGED otherThanLegacy

\* the read of the counter the ++ increments
LegacyLoad(t) ==
    /\ lgpc[t] = "load"
    /\ lgtmp' = [lgtmp EXCEPT ![t] =
                    IF CounterOf(lgop[t]) = "clone" THEN cloneRetrySuccess
                    ELSE IF CounterOf(lgop[t]) = "fetch" THEN fetchRetrySuccess
                    ELSE 0]
    /\ lgpc' = [lgpc EXCEPT ![t] = "store"]
    /\ UNCHANGED <<lgRetryCount, lgop, lgattempt, lgn, printMutex, statsVars, finished>>
    /\ UNCHANGED otherThanLegacy

\* the write of the ++: p.stats.cloneRetrySuccess++ or p.stats.fetchRetrySuccess++
LegacyStore(t) ==
    /\ lgpc[t] = "store"
    /\ cloneRetrySuccess' =
          IF CounterOf(lgop[t]) = "clone" THEN lgtmp[t] + 1 ELSE cloneRetrySuccess
    /\ fetchRetrySuccess' =
          IF CounterOf(lgop[t]) = "fetch" THEN lgtmp[t] + 1 ELSE fetchRetrySuccess
    /\ lgpc' = [lgpc EXCEPT ![t] = "unlock"]
    /\ UNCHANGED <<lgRetryCount, lgop, lgattempt, lgtmp, lgn, printMutex, retriedFailure,
                   finished>>
    /\ UNCHANGED otherThanLegacy

\* p.stats.printMutex.Unlock(); return nil
LegacyUnlock(t) ==
    /\ lgpc[t] = "unlock"
    /\ printMutex' = 0
    /\ lgpc' = [lgpc EXCEPT ![t] = "idle"]
    /\ finished' = finished \cup {CallRecord(t, lgn[t], lgop[t], lgattempt[t], TRUE)}
    /\ UNCHANGED <<lgRetryCount, lgop, lgattempt, lgtmp, lgn, statsVars>>
    /\ UNCHANGED otherThanLegacy

LegacyNext ==
    \E t \in Threads :
        \/ LegacyCall(t)
        \/ LegacyCmdOk(t)
        \/ LegacyCmdFails(t)
        \/ LegacyCountFailure(t)
        \/ LegacySleep(t)
        \/ LegacyLock(t)
        \/ LegacyLoad(t)
        \/ LegacyStore(t)
        \/ LegacyUnlock(t)

SpecLegacy == LegacyInit /\ [][LegacyNext]_vars

\* ---- Manager.openRepository called by concurrent workers -----------------

CacheHitNever(cache, name) == FALSE

\* if repo, ok := m.repositories[repoName]; ok { return repo, nil }
CacheHit(cache, name) == name \in DOMAIN cache

RepoNames == Names \ {GitDir}

OpenReturn(t, n, name, ok, handle) ==
    [worker |-> t, call |-> n, name |-> name, ok |-> ok, handle |-> handle]

otherThanOpen == <<ctxDone, workers, poolVars, trackerVars, listVars, retryVars, lockVars,
                   cleanVars, mgrVars, procVars, legVars, liveVars>>

OpenInit ==
    /\ ctxDone = FALSE
    /\ workers = MaxThreads
    /\ PoolIdle
    /\ ListIdle
    /\ RetryIdle
    /\ LockIdle
    /\ CleanIdle
    /\ ManagerIdle
    /\ ProcIdle
    /\ LegacyIdle
    /\ LiveIdle
    /\ repositories = << >>
    /\ openMu = 0
    /\ openable \in SUBSET RepoNames
    /\ opc = [t \in Threads |-> "idle"]
    /\ oname = [t \in Threads |-> 0]
    /\ ocalls = [t \in Threads |-> 0]
    /\ plainOpens = 0
    /\ opened = {}

\* a worker calls openRepository for a repository no other worker is
\* processing (one task per name)
OpenCall(t, name) ==
    /\ opc[t] = "idle"
    /\ ocalls[t] < MaxOps
    /\ \A u \in Threads : opc[u] # "idle" => oname[u] # name
    /\ ocalls' = [ocalls EXCEPT ![t] = @ + 1]
    /\ oname' = [oname EXCEPT ![t] = name]
    /\ opc' = [opc EXCEPT ![t] = "lock"]
    /\ UNCHANGED <<repositories, openMu, openable, plainOpens, opened>>
    /\ UNCHANGED otherThanOpen

\* m.repoMutex.Lock(); defer m.repoMutex.Unlock()
OpenAcquire(t) ==
    /\ opc[t] = "lock"
    /\ CanLock(openMu, 0)
    /\ openMu' = t
    /\ opc' = [opc EXCEPT ![t] = "locked"]
    /\ UNCHANGED <<repositories, openable, oname, ocalls, plainOpens, opened>>
    /\ UNCHANGED otherThanOpen

\* the name is cached: return repo, nil; the deferred Unlock runs
OpenCached(t) ==
    /\ opc[t] = "locked"
    /\ CacheHit(repositories, oname[t])
    /\ opened' = opened \cup {OpenReturn(t, ocalls[t], oname[t], TRUE, repositories[oname[t]])}
    /\ openMu' = 0
    /\ opc' = [opc EXCEPT ![t] = "idle"]
    /\ UNCHANGED <<repositories, openable, oname, ocalls, plainOpens>>
    /\ UNCHANGED otherThanOpen

\* git.PlainOpen succeeds: m.repositories[repoName] = repo; return repo, nil;
\* the deferred Unlock runs
OpenStores(t) ==
    /\ opc[t] = "locked"
    /\ ~CacheHit(repositories, oname[t])
    /\ oname[t] \in openable
    /\ plainOpens' = plainOpens + 1
    /\ repositories' = [n \in (DOMAIN repositories) \cup {oname[t]} |->
                           IF n = oname[t] THEN plainOpens + 1 ELSE repositories[n]]
    /\ opened' = opened \cup {OpenReturn(t, ocalls[t], oname[t], TRUE, plainOpens + 1)}
    /\ openMu' = 0
    /\ opc' = [opc EXCEPT ![t] = "idle"]
    /\ UNCHANGED <<openable, oname, ocalls>>
    /\ UNCHANGED otherThanOpen

\* git.PlainOpen fails: return nil, "error opening repository"; the deferred
\* Unlock runs
OpenErrors(t) ==
    /\ opc[t] = "locked"
    /\ ~CacheHit(repositories, oname[t])
    /\ oname[t] \notin openable
    /\ opened' = opened \cup {OpenReturn(t, ocalls[t], oname[t], FALSE, 0)}
    /\ openMu' = 0
    /\ opc' = [opc EXCEPT ![t] = "idle"]
    /\ UNCHANGED <<repositories, openable, oname, ocalls, plainOpens>>
    /\ UNCHANGED otherThanOpen

OpenNext ==
    \E t \in Threads :
        \/ \E name \in RepoNames : OpenCall(t, name)
        \/ OpenAcquire(t)
        \/ OpenCached(t)
        \/ OpenStores(t)
        \/ OpenErrors(t)

SpecOpen == OpenInit /\ [][OpenNext]_vars

\* ---- the pool whose per-repository function retries a git operation -----
\* processFunc runs RunWithRetry: up to liveRetry attempts, a 5 second
\* time.Sleep after every failed attempt but the last, and no look at ctx.

liveOther == <<lockVars, cleanVars, mgrVars, procVars, legVars, openVars>>

LiveInit ==
    /\ ctxDone = FALSE
    /\ workers \in 1 .. MaxWorkers
    /\ nRepos \in 0 .. MaxLiveRepos
    /\ idx = 0
    /\ mpc = "loop"
    /\ semaphore = 0
    /\ wg = 0
    /\ gpc = [i \in Indices |-> "none"]
    /\ gerr = [i \in Indices |-> "none"]
    /\ invoked = [i \in Indices |-> 0]
    /\ reported = [i \in Indices |-> 0]
    /\ sawDone = FALSE
    /\ admittedAtCancel = -1
    /\ inflightAtCancel = {}
    /\ poolRet = "none"
    /\ NewProgressTracker(nRepos)
    /\ liveRetry \in 1 .. MaxAttempts
    /\ wattempt = [i \in Indices |-> 0]
    /\ delayedAtCancel = {}
    /\ ListIdle
    /\ RetryIdle
    /\ LockIdle
    /\ CleanIdle
    /\ ManagerIdle
    /\ ProcIdle
    /\ LegacyIdle
    /\ OpenIdle

\* cancel() of the caller's context, at any moment before the pool returns
LiveCancel ==
    /\ ~ctxDone
    /\ mpc # "done"
    /\ ctxDone' = TRUE
    /\ admittedAtCancel' = idx
    /\ inflightAtCancel' = {i \in Indices : gpc[i] \notin {"none", "exit"}}
    /\ delayedAtCancel' = {i \in Indices : gpc[i] = "delay"}
    /\ UNCHANGED <<workers, nRepos, idx, mpc, semaphore, wg, gpc, gerr, invoked,
                   reported, sawDone, poolRet, trackerVars>>
    /\ UNCHANGED <<liveRetry, wattempt>>
    /\ UNCHANGED <<listVars, retryVars, liveOther>>

\* processFunc(repo) is called: attempt := 1 and the operation is invoked
LiveCall(i) ==
    /\ gpc[i] = "started"
    /\ liveRetry >= 1
    /\ invoked' = [invoked EXCEPT ![i] = @ + 1]
    /\ wattempt' = [wattempt EXCEPT ![i] = 1]
    /\ gpc' = [gpc EXCEPT ![i] = "running"]
    /\ UNCHANGED <<ctxDone, workers, nRepos, idx, mpc, semaphore, wg, gerr,
                   reported, sawDone, admittedAtCancel, inflightAtCancel, poolRet, trackerVars>>
    /\ UNCHANGED <<liveRetry, delayedAtCancel>>
    /\ UNCHANGED <<listVars, retryVars, liveOther>>

\* the operation failed for another reason than an empty remote and
\* attempt < retryCount: time.Sleep begins
AttemptFails(i) ==
    /\ gpc[i] = "running"
    /\ ~LastAttempt(wattempt[i], liveRetry)
    /\ gpc' = [gpc EXCEPT ![i] = "delay"]
    /\ UNCHANGED <<ctxDone, workers, nRepos, idx, mpc, semaphore, wg, gerr, invoked,
                   reported, sawDone, admittedAtCancel, inflightAtCancel, poolRet, trackerVars>>
    /\ UNCHANGED <<listVars, retryVars, extVars>>

\* time.Sleep returns, whatever ctx says: continue, attempt++, invoke again
DelayEnds(i) ==
    /\ gpc[i] = "delay"
    /\ wattempt' = [wattempt EXCEPT ![i] = @ + 1]
    /\ gpc' = [gpc EXCEPT ![i] = "running"]
    /\ UNCHANGED <<ctxDone, workers, nRepos, idx, mpc, semaphore, wg, gerr, invoked,
                   reported, sawDone, admittedAtCancel, inflightAtCancel, poolRet, trackerVars>>
    /\ UNCHANGED <<liveRetry, delayedAtCancel>>
    /\ UNCHANGED <<listVars, retryVars, liveOther>>

\* what RunWithRetry can return at attempt a: nil when fn() succeeded, the
\* wrapped error at once when the remote is empty, the wrapped error of any
\* other failure only at the last attempt
LiveResults(a, count) ==
    {"nil", "empty"} \cup (IF LastAttempt(a, count) THEN {"error"} ELSE {})

LiveReturn(i) ==
    /\ gpc[i] = "running"
    /\ \E r \in LiveResults(wattempt[i], liveRetry) : gerr' = [gerr EXCEPT ![i] = r]
    /\ gpc' = [gpc EXCEPT ![i] = "returned"]
    /\ UNCHANGED <<ctxDone, workers, nRepos, idx, mpc, semaphore, wg, invoked,
                   reported, sawDone, admittedAtCancel, inflightAtCancel, poolRet, trackerVars>>
    /\ UNCHANGED <<listVars, retryVars, extVars>>

LiveNext ==
    \/ LiveCancel
    \/ SelectDone
    \/ SelectDefault
    \/ Admit
    \/ LoopEnd
    \/ Wait
    \/ Return
    \/ \E i \in Indices : WorkerStart(i)
    \/ \E i \in Indices : LiveCall(i)
    \/ \E i \in Indices : AttemptFails(i)
    \/ \E i \in Indices : DelayEnds(i)
    \/ \E i \in Indices : LiveReturn(i)
    \/ \E i \in Indices : WorkerComplete(i)
    \/ \E i \in Indices : WorkerRelease(i)
    \/ \E i \in Indices : WorkerDone(i)

\* every goroutine that can take a step is scheduled sooner or later, and
\* every git operation and every sleep comes back
SpecLive == LiveInit /\ [][LiveNext]_vars /\ WF_vars(LiveNext)

\* ---- claims about the dispatcher ----------------------------------------

Admitted == {i \in Indices : gpc[i] # "none"}
Running == {i \in Indices : gpc[i] = "running"}
Listed == {i \in Indices : i < nRepos}

\* C1: for every limit k >= 1 and every list length, at no moment are more
\* than k executions of the per-repository function in progress.
C1_AtMostKRunning ==
    workers >= 1 => Cardinality(Running) <= workers

\* the limit is reached while a further task waits at the admission gate
C1_Witness ==
    /\ workers >= 2
    /\ Cardinality(Running) = workers
    /\ mpc = "acquire"

\* C2: no descriptor ever receives more than one outcome, and a run that
\* returns without cancellation has called the function exactly once and
\* reported exactly one completion for each of the n descriptors (returning
\* nil, also for n = 0).
C2_ExactlyOnce ==
    /\ \A i \in Indices : reported[i] <= 1 /\ invoked[i] <= 1
    /\ (mpc = "done" /\ ~ctxDone) =>
          /\ \A i \in Listed : invoked[i] = 1 /\ reported[i] = 1
          /\ \A i \in Indices \ Listed : invoked[i] = 0 /\ reported[i] = 0
          /\ completedRepos = nRepos
          /\ poolRet = "nil"

C2_Witness ==
    /\ mpc = "done"
    /\ ~ctxDone
    /\ nRepos >= 2
    /\ \A i \in Listed : reported[i] = 1

\* C3: a failing per-repository function never aborts the run nor becomes its
\* return value: without cancellation every repository is processed, nil is
\* returned, failed counts the failing repositories and completed - failed
\* the succeeding ones.
C3_FailuresOnlyCounted ==
    (mpc = "done" /\ ~ctxDone) =>
        /\ poolRet = "nil"
        /\ \A i \in Listed : invoked[i] = 1
        /\ failedRepos = Cardinality({i \in Listed : gerr[i] = "error"})
        /\ completedRepos - failedRepos = Cardinality({i \in Listed : gerr[i] = "nil"})

\* a finished run with both a failing and a succeeding repository
C3_Witness ==
    /\ mpc = "done"
    /\ ~ctxDone
    /\ poolRet = "nil"
    /\ \E i, j \in Listed : gerr[i] = "error" /\ gerr[j] = "nil"

\* C4: once cancellation is signalled after m < n tasks have been started, no
\* further task is admitted, so at most m completions are reported.
C4_NoAdmissionAfterCancel ==
    (admittedAtCancel >= 0 /\ admittedAtCancel < nRepos) =>
        /\ idx = admittedAtCancel
        /\ completedRepos <= admittedAtCancel

\* C5: cancellation aborts no running task: the dispatcher returns only after
\* every admitted task has finished and reported its one outcome, and it then
\* returns the interrupted error.
C5_WaitsThenInterrupted ==
    mpc = "done" =>
        /\ \A i \in Admitted : gpc[i] = "exit" /\ invoked[i] = 1 /\ reported[i] = 1
        /\ inflightAtCancel \subseteq Admitted
        /\ completedRepos = Cardinality(Admitted)
        /\ (ctxDone => poolRet = "interrupted")
        /\ (sawDone => ctxDone)

\* returned after cancellation with tasks that were in flight when it came
C5_Witness ==
    /\ mpc = "done"
    /\ sawDone
    /\ inflightAtCancel # {}
    /\ poolRet = "interrupted"
    /\ \A i \in inflightAtCancel : reported[i] = 1

\* ---- claims about the lister --------------------------------------------

RECURSIVE PagesUpTo(_)
PagesUpTo(n) == IF n = 0 THEN << >> ELSE PagesUpTo(n - 1) \o PageRepos(n)

Listed2 == lpc = "done" /\ listRet.err.kind = "none"

\* C6: the list returned by ListRepositories does not depend on the order in
\* which the page fetches complete: it is the concatenation of the pages in
\* ascending page number.
C6_AscendingPageOrder ==
    (Listed2 /\ respNext # 0) => listRet.repos = PagesUpTo(totalPages)

\* a successful listing whose pages arrived out of page order
C6_Witness ==
    /\ Listed2
    /\ totalPages >= 3
    /\ \E i, j \in 1 .. Len(arrival) : i < j /\ arrival[i] > arrival[j]

\* C7 as stated: if any page fetch fails with a non-cancellation error the
\* call fails with a listing error and returns no repositories.
C7_DataFailureGivesListingError ==
    (lpc = "done" /\ dataFailed # {}) =>
        /\ listRet.err.kind = "data"
        /\ listRet.isNil

\* C7 amended: if any page fetch fails with a non-cancellation error before
\* the call returns, the call fails and returns no repositories, whatever
\* pages completed; the error is the listing error unless a cancellation was
\* observed, in which case it may be the cancellation error instead.
C7_DataFailureGivesNoRepositories ==
    (lpc = "done" /\ dataFailed # {}) =>
        /\ listRet.isNil
        /\ listRet.repos = << >>
        /\ listRet.err.kind \in {"data", "ctx"}
        /\ (ctxSeen = {} => listRet.err.kind = "data")
        /\ (listRet.err.kind = "data" => listRet.err.wrap \in {"first", "page"})

\* a page failed after another page beyond the first had been collected
C7_Witness ==
    /\ lpc = "done"
    /\ dataFailed # {}
    /\ listRet.err.kind = "data"
    /\ \E q \in DOMAIN pageMap : q >= 2

\* C8 as stated: a cancellation observed before or during any page fetch
\* makes the call fail with the context error itself and a nil list.
C8_CancelGivesBareContextError ==
    (lpc = "done" /\ ctxSeen # {}) =>
        /\ listRet.err = CtxErr
        /\ listRet.isNil

\* C8 amended: a cancellation observed before or during any page fetch makes
\* the call fail with a nil list; the error is the context error itself when
\* the dispatch loop observes it or when a page goroutine's cancellation is
\* the first failure the collector receives, the context error wrapped as a
\* first-page error when the first fetch observes it, and a page-fetch error
\* only when a page that failed with another error was received first; a
\* cancellation is never wrapped as a page-fetch error.
C8_CancelFailsTheListing ==
    (lpc = "done" /\ ctxSeen # {}) =>
        /\ listRet.isNil
        /\ listRet.repos = << >>
        /\ listRet.err.kind # "none"
        /\ ("loop" \in ctxSeen => listRet.err = CtxErr)
        /\ ("first" \in ctxSeen => listRet.err = WrapFirst(CtxErr))
        /\ ((listRet.err.kind = "ctx" /\ "first" \notin ctxSeen) => listRet.err = CtxErr)
        /\ (listRet.err.kind = "data" => (dataFailed # {} /\ listRet.err.wrap = "page"))

\* a page goroutine observed the cancellation after another page was collected
C8_Witness ==
    /\ lpc = "done"
    /\ "worker" \in ctxSeen
    /\ listRet.err = CtxErr
    /\ \E q \in DOMAIN pageMap : q >= 2

\* ---- claims about the retry executor ------------------------------------

Failures == {k \in 1 .. Len(calls) : ~calls[k].isNil}
EmptyFailures == {k \in 1 .. Len(calls) : Contains(calls[k].msg, "remote repository is empty")}

\* C9: with maxAttempts >= 1 the operation is invoked at most maxAttempts
\* times, never again after a success, which returns nil; when every one of
\* the maxAttempts invocations fails with a retried error the error returned
\* carries the last failure; so the number of invocations is the index of the
\* first success, or maxAttempts if none succeeds.
C9_BoundedAttempts ==
    retryCount >= 1 =>
        /\ Len(calls) <= retryCount
        /\ \A k \in 1 .. Len(calls) : calls[k].isNil => k = Len(calls)
        /\ (rpc = "done" /\ EmptyFailures = {}) =>
              /\ Len(calls) >= 1
              /\ IF calls[Len(calls)].isNil
                 THEN retryRet.isNil
                 ELSE /\ Len(calls) = retryCount
                      /\ retryRet = Wrap(operation, calls[retryCount], retryCount)
              /\ sleeps = Len(calls) - 1

\* every one of at least two attempts failed and the last failure came back
C9_Witness ==
    /\ rpc = "done"
    /\ retryCount >= 2
    /\ Len(calls) = retryCount
    /\ Failures = 1 .. retryCount
    /\ EmptyFailures = {}
    /\ retryRet.cause = retryCount

\* C10: an invocation failing with the empty-remote-repository error ends
\* RunWithRetry at once: no further invocation, no delay, and the error
\* returned contains the empty-repository failure, whatever maxAttempts is.
C10_EmptyRemoteAborts ==
    \A k \in EmptyFailures :
        /\ k = Len(calls)
        /\ rpc = "done"
        /\ sleeps = k - 1
        /\ retryRet = Wrap(operation, calls[k], k)
        /\ Contains(retryRet.msg, "remote repository is empty")

\* the empty-repository failure came on a retry, with attempts still left
C10_Witness ==
    /\ rpc = "done"
    /\ Len(calls) >= 2
    /\ Len(calls) < retryCount
    /\ Len(calls) \in EmptyFailures
    /\ ~retryRet.isNil

\* the not-found classification of the clone path: "repository not found",
\* "not found" or "does not exist" in the message
NotFoundFailures ==
    {k \in 1 .. Len(calls) : \/ Contains(calls[k].msg, "repository not found")
                             \/ Contains(calls[k].msg, "not found")
                             \/ Contains(calls[k].msg, "does not exist")}

\* C11: an invocation failing with a repository-not-found error ends the
\* retry executor at once, with no retry and no delay, for every label.
C11_NotFoundAborts ==
    \A k \in NotFoundFailures :
        /\ k = Len(calls)
        /\ rpc = "done"
        /\ sleeps = k - 1

\* C12: after the cancellation signal the retry executor makes no further
\* attempt of the operation and starts no further retry delay.
C12_CancelStopsRetrying ==
    [][ctxDone => (calls' = calls /\ sleeps' = sleeps)]_vars

\* ---- claims about the progress tracker ----------------------------------

Quiescent == \A t \in Threads : tpc[t] = "idle"

FailedIn(history) == Cardinality({k \in 1 .. Len(history) : ~history[k].Success})

LastOf(history, n) ==
    IF Len(history) <= n THEN history
    ELSE SubSeq(history, Len(history) - n + 1, Len(history))

\* C17: whatever StartWorker and CompleteRepository calls are made, and however
\* they interleave, the completed counter and the failed counter never
\* decrease and the completed counter is never below the failed counter.
C17_CountersMonotone ==
    [][/\ completedRepos' >= completedRepos
       /\ failedRepos' >= failedRepos
       /\ completedRepos >= failedRepos
       /\ completedRepos' >= failedRepos']_vars

C17_Witness ==
    /\ failedRepos >= 2
    /\ completedRepos > failedRepos
    /\ \E t \in Threads : tpc[t] = "cStored" /\ ~tsucc[t]
    /\ \E t \in Threads : tpc[t] = "sWant"

\* C18: the recent results never hold more than five entries, and they are
\* the last min(count, 5) completions in the order they were recorded.
C18_RecentResultsAreTheLastFive ==
    /\ Len(recentResults) <= RecentCap
    /\ recentResults = LastOf(completions, RecentCap)

C18_Witness ==
    /\ Len(completions) > RecentCap
    /\ Len(recentResults) = RecentCap
    /\ recentResults[1].Name # 1

\* C19: no update is lost and no read is torn: once every call has returned
\* the counters equal the number of completions and of failed completions,
\* and the two counters PrintSummary reads are the values both had at the one
\* moment it took the read lock.
C19_NoLostUpdateNoTornRead ==
    /\ Quiescent => /\ completedRepos = Len(completions)
                    /\ failedRepos = FailedIn(completions)
    /\ rdpc = "readF" => snapC = lockC /\ snapF = lockF

C19_Witness ==
    /\ rdpc = "readF"
    /\ snapC >= 2
    /\ snapF >= 1
    /\ \E t \in Threads : tpc[t] = "cWant"
    /\ \E t \in Threads : tpc[t] = "sWant"

\* ---- claims about the cleanup --------------------------------------------

Stale == {n \in Names : initKind[n] = "dir" /\ n # GitDir /\ n \notin validRepos}
Removed == {n \in Names : initKind[n] # "none" /\ entryKind[n] = "none"}

\* C20: only directories other than ".git" whose name matches no repository
\* are ever removed (a matching directory stays even when its repository's
\* sync fails afterwards, a non-directory entry always stays), and when
\* cleanup returns without error every such directory has been removed.
C20_RemovesOnlyTheStale ==
    /\ Removed \subseteq Stale
    /\ cleanRet = "nil" => Removed = Stale

C20_Witness ==
    /\ cleanRet = "nil"
    /\ Removed # {}
    /\ entryKind[GitDir] = "dir"
    /\ \E n \in syncFailed : initKind[n] = "dir" /\ entryKind[n] = "dir"
    /\ \E n \in Names \ validRepos : entryKind[n] = "file"

\* ---- claims about the processing of one repository ----------------------

Returned == mgpc \in {"ret", "reported"}

\* the last result the tracker recorded is the one of this run
ReportedAs(success) ==
    /\ recentResults # << >>
    /\ recentResults[Len(recentResults)].Name = run
    /\ recentResults[Len(recentResults)].Success = success
    /\ failedRepos = FailedIn(recentResults)

EmptyClones == {k \in 1 .. Len(cloneLog) : cloneLog[k] = "remote repository is empty"}

NotFoundClones == {k \in 1 .. Len(cloneLog) : cloneLog[k] = "repository not found"}

OtherFailedClones == {k \in 1 .. Len(cloneLog) : cloneLog[k] = "network error"}

C15_SecondRunChangesNothing ==
    (run >= 2 /\ Returned /\ "network error" \notin
         {cloneLog[k] : k \in 1 .. Len(cloneLog)} \cup {fetchLog[k] : k \in 1 .. Len(fetchLog)}
         \cup {pullLog[k] : k \in 1 .. Len(pullLog)})
    => /\ mret.isNil
       /\ cloneLog = << >>
       /\ pullLog = << >>
       /\ Dir = startDir

\* C15: a later run that succeeds on a repository the previous run left
\* cloned or updated makes no clone and no pull and leaves the local HEAD and
\* the remote-tracking reference as they were; remote "origin" of the local
\* configuration then holds the URL with the token.
C15_SecondRunKeepsTheHead ==
    (run >= 2 /\ Returned /\ mret.isNil /\ prevRet.isNil /\ startDir.state = "repo")
    => /\ cloneLog = << >>
       /\ pullLog = << >>
       /\ dirState = "repo"
       /\ localHead = startDir.head
       /\ remoteRef = startDir.ref
       /\ originURL = "auth"

C15_Witness ==
    /\ run = 2
    /\ mgpc = "reported"
    /\ mret.isNil
    /\ prevRet.isNil
    /\ startDir.state = "repo"
    /\ startDir.url = "clone"
    /\ originURL = "auth"
    /\ localHead = RemoteHead
    /\ fetchLog = <<"ok">>

\* C16: when the pull of a present repository fails as a non-fast-forward
\* update, the directory is deleted and the repository cloned again, and the
\* result is nil unless that clone fails.
C16_DivergenceRecovered ==
    (Returned /\ pullLog # << >> /\ pullLog[Len(pullLog)] = "non-fast-forward update")
    => /\ cloneLog # << >>
       /\ mret.isNil \/ cloneLog[Len(cloneLog)] # "ok"

\* ---- more claims about the dispatcher -----------------------------------

InFlight == {i \in Indices : gpc[i] \in {"started", "running", "returned"}}

\* C26: at every moment the worker statuses of the tracker hold exactly the
\* repositories whose worker has reported the start and not yet the
\* completion.
C26_InFlightTallyExact ==
    {workerStatuses[id] : id \in DOMAIN workerStatuses} = InFlight

\* C28: a task whose function returned the cancellation error is not counted
\* as failed: the failed count is the number of reported tasks whose function
\* returned an error of its own.
C28_CancelledNotCountedFailed ==
    failedRepos = Cardinality({i \in Indices : reported[i] > 0 /\ gerr[i] = "error"})

\* C29: tasks are admitted in the order of the list: when the goroutine of
\* task i is launched, the goroutines of all tasks before it have been
\* launched; tasks complete in any order.
C29_FifoAdmission ==
    [][\A i \in Indices :
         (gpc[i] = "none" /\ gpc'[i] # "none") =>
             \A j \in Indices : j < i => gpc[j] # "none"]_vars

C29_Witness ==
    /\ gpc[0] = "spawned"
    /\ gpc[1] = "exit"
    /\ gpc[2] = "running"

\* ---- more claims about the retry executor -------------------------------

DivergedFailures == {k \in 1 .. Len(calls) : calls[k].msg = <<"non-fast-forward update">>}

\* C22: an invocation that fails with a non-fast-forward update is followed by
\* the delay and another invocation unless it is invocation number
\* retryCount; only then does RunWithRetry return, with the error of that
\* last invocation.
C22_DivergedIsRetried ==
    \A k \in DivergedFailures :
        /\ k <= retryCount
        /\ k < retryCount => /\ sleeps >= k \/ rpc = "sleep"
                             /\ k = Len(calls) => rpc # "done"
        /\ (k = Len(calls) /\ rpc = "done") =>
               /\ k = retryCount
               /\ sleeps = retryCount - 1
               /\ ~retryRet.isNil
               /\ retryRet.cause = k
               /\ Contains(retryRet.msg, "non-fast-forward update")

C22_Witness ==
    /\ rpc = "done"
    /\ retryCount >= 3
    /\ Len(calls) = retryCount
    /\ DivergedFailures = 1 .. retryCount
    /\ sleeps = retryCount - 1
    /\ retryRet.cause = retryCount

\* ---- more claims about the processing of one repository -----------------

LastPull == pullLog[Len(pullLog)]

NothingAttempted == cloneLog = << >> /\ fetchLog = << >> /\ pullLog = << >>

\* C24: when the pull has failed as a non-fast-forward update and
\* ProcessRepository has returned, the cached handle has been dropped and the
\* directory has been deleted (and cloned again unless the deletion failed).
C24_RecoveryDropsDeletesClones ==
    (Returned /\ pullLog # << >> /\ LastPull = "non-fast-forward update")
    => /\ ~cached
       /\ dirState = "absent" \/ cloneLog # << >>

\* C25: when the pull has failed for good with an error that is not a
\* non-fast-forward update, ProcessRepository returns an error, the
\* repository is reported as failed, no clone has been attempted and the
\* directory is still there with its HEAD where it was.
C25_OtherPullFailureFails ==
    (Returned /\ pullLog # << >> /\ LastPull \notin {"ok", "non-fast-forward update"})
    => /\ ~mret.isNil
       /\ cloneLog = << >>
       /\ dirState = "repo"
       /\ localHead = startDir.head
       /\ mgpc = "reported" => ReportedAs(FALSE)

C25_Witness ==
    /\ mgpc = "reported"
    /\ RetryCount >= 2
    /\ pullLog = [k \in 1 .. RetryCount |-> "network error"]
    /\ fetchLog = <<"ok">>
    /\ dirState = "repo"
    /\ failedRepos >= 1

\* C27: the mutex of the repository cache is never held while a disk or
\* network call is in progress.
C27_NoDiskCallUnderLock ==
    ~(repoMutex /\ mgpc = "plainOpen")

\* C30: when the path exists and cannot be opened as a repository, or when
\* os.Stat fails with an error other than not-exists, ProcessRepository
\* returns an error and the repository is reported as failed; no clone,
\* fetch or pull has been attempted and the directory is as it was.
C30_UnopenablePathFails ==
    (Returned /\ (startDir.state = "plain" \/ mret = Err(<<"stat error">>)))
    => /\ ~mret.isNil
       /\ NothingAttempted
       /\ Dir = startDir
       /\ mgpc = "reported" => ReportedAs(FALSE)

C30_Witness ==
    /\ mgpc = "reported"
    /\ startDir.state = "plain"
    /\ mret = Err(<<"error opening repository", "repository does not exist">>)
    /\ NothingAttempted
    /\ failedRepos = 1

\* ---- C21 ----------------------------------------------------------------

SaveFailures == {"error creating repository list file",
                 "error writing to repository list file"}

FullManifest == [exists |-> TRUE, lines |-> [k \in 1 .. Len(listed) |-> listed[k]]]

DirectoriesUntouched == entryKind = initKind /\ cpc = "idle" /\ entries = << >>

\* C21: Run goes through listing, manifest write, cleanup and
\* synchronization in that order, and a failed phase ends the run there: the
\* manifest is touched only after the listing returned without error, the
\* output directory is read or changed only after the whole manifest was
\* written, a repository is processed only after the cleanup returned
\* without error; when the listing fails (a cancellation included) the
\* manifest is as it was, no directory is deleted and no repository is
\* processed, and Run returns that error; when the manifest cannot be
\* created or written no directory is deleted and no repository is
\* processed, and Run returns that error.
C21_PhasesInOrderAbortOnFailure ==
    /\ manifest # manifestInit => errs.list = "nil"
    /\ ~DirectoriesUntouched => errs.list = "nil" /\ errs.save = "nil" /\ manifest = FullManifest
    /\ synced # {} => /\ errs.list = "nil" /\ errs.save = "nil" /\ errs.cleanup = "nil"
                      /\ manifest = FullManifest /\ cpc = "done" /\ cleanRet = "nil"
    /\ errs.list \in ListFailures =>
         /\ manifest = manifestInit
         /\ DirectoriesUntouched
         /\ synced = {}
         /\ ppc = "done" => runRet = errs.list
    /\ errs.save \in SaveFailures =>
         /\ DirectoriesUntouched
         /\ synced = {}
         /\ ppc = "done" => runRet = errs.save

\* the second repository's line could not be written while a directory of a
\* repository that left the organization is in the output directory
C21_Witness ==
    /\ ppc = "done"
    /\ errs.save = "error writing to repository list file"
    /\ runRet = errs.save
    /\ Len(listed) = 2
    /\ Len(manifest.lines) = 1
    /\ \E n \in Names \ {GitDir} : n \notin NamesOf(listed) /\ entryKind[n] = "dir"
    /\ \E n \in NamesOf(listed) : entryKind[n] = "none"

\* ---- C23 ----------------------------------------------------------------

\* the calls with this label that returned nil after more than one attempt
RetriedSuccesses(label) ==
    {r \in finished : r.op = <<label>> /\ r.ok /\ r.attempt > 1}

\* the workers that have incremented for this label and hold the lock still
Incrementing(label) == {t \in Threads : lgpc[t] = "unlock" /\ lgop[t] = <<label>>}

Started == {i \in Indices : gpc[i] \notin {"none", "spawned"}}

\* C33 as stated: with a limit of 0 and at least one descriptor
\* ProcessRepositories starts no task, reports no outcome and never returns.
C33_ZeroWorkersNeverReturns ==
    (workers = 0 /\ nRepos >= 1) =>
        /\ Admitted = {}
        /\ completedRepos = 0
        /\ mpc # "done"

\* C33: with a limit of 0 and at least one descriptor ProcessRepositories
\* starts no task and reports no outcome; it leaves the loop only when the
\* first admission check finds the cancellation already signalled, and then
\* it returns the interrupted error; once it is past that check it waits at
\* the admission gate for ever, also when cancellation is signalled later.
C33_ZeroWorkersBlockUnlessCancelledFirst ==
    (workers = 0 /\ nRepos >= 1) =>
        /\ Admitted = {}
        /\ completedRepos = 0
        /\ idx = 0
        /\ mpc \in {"wait", "check", "done"} => sawDone /\ wg = 0
        /\ mpc = "done" => poolRet = "interrupted"

\* the dispatcher waits at the gate while the cancellation has been signalled
C33_Witness ==
    /\ workers = 0
    /\ nRepos >= 1
    /\ mpc = "acquire"
    /\ ctxDone
    /\ wg = 1

\* C36: the completed count never exceeds the number of tasks that have
\* reported their start nor the total, and when ProcessRepositories has
\* returned the worker statuses are empty and completed is the number of
\* admitted tasks.
C36_CompletedBoundedAndSettled ==
    /\ completedRepos <= Cardinality(Started)
    /\ completedRepos <= totalRepos
    /\ totalRepos = nRepos
    /\ mpc = "done" =>
         /\ workerStatuses = << >>
         /\ completedRepos = Cardinality(Admitted)

\* three repositories on two workers, so that two tasks shared a worker id,
\* all completed and the run returned
C36_Witness ==
    /\ mpc = "done"
    /\ workers = 2
    /\ nRepos = 3
    /\ completedRepos = 3
    /\ workerStatuses = << >>

\* C37: ProcessRepositories returns nil only if each of the n descriptors was
\* processed exactly once, and it returns the interrupted error exactly when
\* the cancellation has been signalled by the time the admitted tasks have
\* finished, also when every descriptor was admitted and processed before.
C37_NilOnlyWhenAllProcessed ==
    mpc = "done" =>
        /\ poolRet \in {"nil", "interrupted"}
        /\ poolRet = "interrupted" <=> ctxDone
        /\ poolRet = "nil" =>
             \A i \in Listed : invoked[i] = 1 /\ reported[i] = 1 /\ gpc[i] = "exit"

\* cancelled after the last admission: all processed, interrupted returned
C37_Witness ==
    /\ mpc = "done"
    /\ poolRet = "interrupted"
    /\ ~sawDone
    /\ nRepos >= 2
    /\ admittedAtCancel = nRepos
    /\ \A i \in Listed : invoked[i] = 1 /\ reported[i] = 1

\* ---- more claims about the lister ---------------------------------------

Occurrences(seq, x) == Cardinality({k \in 1 .. Len(seq) : seq[k] = x})

\* C32: a successful listing is complete: when the first response reported a
\* last page L >= 2 the result holds the repositories of the pages 1 .. L,
\* each exactly once, page 1 included; when the first response reported no
\* next page the result is page 1 and no other page was fetched.
C32_CompleteAndOnce ==
    Listed2 =>
        /\ respLast >= 2 =>
              /\ respLast = remotePages
              /\ listRet.repos = PagesUpTo(respLast)
              /\ \A q \in 1 .. respLast : \A j \in 1 .. pageSize[q] :
                    Occurrences(listRet.repos, <<q, j>>) = 1
              /\ \A k \in 1 .. Len(listRet.repos) : listRet.repos[k][1] \in 1 .. respLast
        /\ respNext = 0 =>
              /\ listRet.repos = PageRepos(1)
              /\ \A q \in Pages : wpc[q] = "none"
              /\ pageMap = << >>
              /\ arrival = << >>

\* three pages listed, page 1 having passed through the result channel
C32_Witness ==
    /\ Listed2
    /\ respLast = 3
    /\ 1 \in DOMAIN pageMap
    /\ pageSize[1] = 2
    /\ Len(listRet.repos) >= 4

Launched == {q \in Pages : wpc[q] # "none"}

\* C35: no page goroutine blocks on its send: the results sent so far (page 1
\* and one per goroutine that has sent) never exceed the capacity of the
\* result channel, a goroutine that has still to send finds room in the
\* buffer and the channel open, also after the collector has returned, and
\* the channel is closed only when every launched goroutine has sent and
\* finished.
C35_SendNeverBlocks ==
    lpc \notin {"first"} /\ totalPages >= 1 =>
        /\ Cardinality(Launched) + 1 <= ResultChanCap(totalPages)
        /\ Len(resultChan) + Len(arrival) <= ResultChanCap(totalPages)
        /\ \A q \in Pages : wpc[q] \in {"spawned", "fetching"} =>
              /\ Len(resultChan) < ResultChanCap(totalPages)
              /\ ~chanClosed
        /\ chanClosed => \A q \in Launched : wpc[q] = "exit"

\* the collector returned on the first failed result; the goroutines of the
\* other pages sent afterwards into the buffer, released their slots and
\* finished, and the channel was closed
C35_Witness ==
    /\ lpc = "done"
    /\ listRet.isNil
    /\ totalPages = 3
    /\ Len(arrival) = 2
    /\ Len(resultChan) = 1
    /\ \A q \in 2 .. 3 : wpc[q] = "exit"
    /\ lsem = 0
    /\ chanClosed

\* ---- more claims about the processing of one repository -----------------

\* C34: with a retry count of 0 or less no clone, fetch or pull is ever
\* attempted and no delay is taken; the clone path returns nil, so a
\* repository whose path os.Stat finds absent is reported as processed
\* successfully while its directory is still absent.
C34_NoRetriesNothingDone ==
    (RetryCount <= 0 /\ Returned) =>
        /\ NothingAttempted
        /\ msleeps = 0
        /\ (startDir.state = "absent" /\ mret # Err(<<"stat error">>)) =>
              /\ mret.isNil
              /\ dirState = "absent"
              /\ mgpc = "reported" => ReportedAs(TRUE)

\* a negative retry count: the absent repository is reported as a success
C34_Witness ==
    /\ mgpc = "reported"
    /\ RetryCount = -1
    /\ startDir.state = "absent"
    /\ dirState = "absent"
    /\ mret.isNil
    /\ cloneLog = << >>
    /\ completedRepos >= 1
    /\ failedRepos = 0

\* ---- claims about the repository cache ----------------------------------

OpenedOk == {r \in opened : r.ok}

\* C31: whatever the interleaving of openRepository calls for different
\* names, the cache holds exactly the names that were opened successfully,
\* each with one handle; a failed open adds no entry; every call for a name
\* returns the handle the cache holds for it, so a later call reopens
\* nothing; and the mutex has at most one holder, who alone is inside.
C31_CacheSerialized ==
    /\ DOMAIN repositories = {r.name : r \in OpenedOk}
    /\ \A r \in OpenedOk : r.handle = repositories[r.name]
    /\ \A r \in opened : ~r.ok => r.name \notin DOMAIN repositories
    /\ \A n, m \in DOMAIN repositories : n # m => repositories[n] # repositories[m]
    /\ plainOpens = Cardinality(DOMAIN repositories)
    /\ \A t \in Threads : opc[t] = "locked" <=> openMu = t

\* both workers opened a repository of their own, one of them opened a
\* cached one again, and an open failed
C31_Witness ==
    /\ \A t \in Threads : opc[t] = "idle"
    /\ Cardinality(DOMAIN repositories) = 2
    /\ \E r, q \in OpenedOk : r.name = q.name /\ r.worker # q.worker /\ r.handle = q.handle
    /\ \E r, q \in OpenedOk : r.name # q.name /\ r.worker # q.worker
    /\ \E r \in opened : ~r.ok

\* ---- claims about termination of the pool -------------------------------

InDelay == {i \in Indices : gpc[i] = "delay"}

AttemptsSettled(i) ==
    /\ gpc[i] = "exit"
    /\ reported[i] = 1
    /\ \/ gerr[i] \in {"nil", "empty"} /\ wattempt[i] \in 1 .. liveRetry
       \/ gerr[i] = "error" /\ wattempt[i] = liveRetry

\* C38: with a concurrency limit of at least 1, a retry count of at least 1
\* and a finite descriptor list, ProcessRepositories eventually returns,
\* cancelled or not, as long as every git operation and every delay comes
\* back; cancellation takes no worker out of its retry delay and costs it
\* none of its remaining attempts; and at the return every admitted task
\* has been reported as done or failed, after an attempt that succeeded or
\* met an empty remote, or after using up all of its attempts.
C38_ReturnsAfterAllAttempts ==
    /\ <>(mpc = "done")
    /\ [](mpc = "done" =>
            /\ \A i \in Admitted : AttemptsSettled(i)
            /\ completedRepos = Cardinality(Admitted)
            /\ failedRepos = Cardinality({i \in Admitted : gerr[i] # "nil"}))
    /\ [][\A i \in InDelay : /\ gpc'[i] \in {"delay", "running"}
                             /\ gpc'[i] = "running" => wattempt'[i] = wattempt[i] + 1
                             /\ gpc'[i] = "delay" => wattempt'[i] = wattempt[i]]_vars

\* the pool returned interrupted although a task that sat in its retry
\* delay at the moment of cancellation went on to its last attempt and
\* failed there, and another one was still admitted and succeeded
C38_Witness ==
    /\ mpc = "done"
    /\ poolRet = "interrupted"
    /\ liveRetry >= 2
    /\ \E i \in delayedAtCancel :
           /\ gerr[i] = "error"
           /\ wattempt[i] = liveRetry
           /\ gpc[i] = "exit"
    /\ \E i \in Admitted : gerr[i] = "nil"

====
